---- MODULE Spec2Model ----
(***************************************************************************)
(* A model of pynads: Functor / Applicative / Monad / Monoid instances and *)
(* the generic monoid helpers.  The library is a set of pure operations on *)
(* immutable values, so the state is the last call that was made: which    *)
(* operation (op), on which operands (args), with which result (out).  An  *)
(* operation may take the previous result as its receiver, so values built *)
(* by chains of calls are reached as well.                                 *)
(*                                                                         *)
(* Python values are records [t |-> <type name>, v |-> <payload>]; the     *)
(* type name fixes the shape of the payload:                               *)
(*   int       an integer                                                  *)
(*   str       the sequence of its characters                              *)
(*   list, tuple, List      the sequence of the elements                   *)
(*   dict, Map the sequence of <<key, value>> pairs in insertion order     *)
(*   Just, Right, Left, Identity   the contained value                     *)
(*   Writer    <<value, log>>                                              *)
(*   State, Reader   the wrapped function                                  *)
(*   function  [name, env]: the code of the function and what it captured  *)
(*   bool      TRUE or FALSE                                               *)
(*   type      the name of a class                                         *)
(*   TypeError, ValueError, AttributeError, IndexError                     *)
(*             a raised exception (payload unused)                         *)
(* A raised exception is the result of the call that raised it, and of     *)
(* every call that was given it.                                           *)
(***************************************************************************)
EXTENDS Integers, Sequences, FiniteSets, TLC

\* inst and created are the one piece of mutable state of the library:
\* the class attribute _Nothing._inst (0 for None, else the number of the
\* instance it refers to) and how many _Nothing instances were ever created.
VARIABLES op, args, out, depth, inst, created

\* threads is the state of the threads that construct the singletons while
\* and after the modules are imported: where each thread is in __new__, the
\* class attributes _inst, the instances created and returned.
VARIABLE threads

\* coro is the state of one call of a function decorated with do: the
\* coroutine (how many yields it has done, whether it is finished), what the
\* driver does next, the calls of bind that have not returned, and the
\* history of what the coroutine yielded and was sent.
VARIABLE coro

\* descr is the state of the method_optional_kwargs descriptors of
\* Maybe.as_wrapper and Option.as_wrapper: the decorator each has in _deco,
\* and the last decorator a program got from one of them and used.
VARIABLE descr

\* heap is the objects of a program that uses the monoids: what each holds
\* now and what it held when it was made, the module-level objects of the
\* tables among them, and the call made last.
VARIABLE heap

vars == <<op, args, out, depth, inst, created, threads, coro, descr, heap>>

(***************************************************************************)
(* Bounds of the model.                                                    *)
(***************************************************************************)
MaxInt == 2      \* integers drawn as inputs are 0 .. MaxInt
MaxLen == 2      \* sequences drawn as inputs have at most MaxLen elements
MaxDepth == 2    \* a chain of calls has at most MaxDepth calls
MaxVal == 16     \* an integer result is passed on to a further call up to MaxVal
NThreads == 2    \* threads that construct singletons
MaxCalls == 2    \* constructor calls of one thread
MaxRuns == 2     \* runs of the Reader or State a do-block returned
MaxObjects == 3  \* objects a program makes before its last call

(***************************************************************************)
(* Python values.                                                          *)
(***************************************************************************)
PyInt(n) == [t |-> "int", v |-> n]
PyStr(cs) == [t |-> "str", v |-> cs]
PyNone == [t |-> "NoneType", v |-> <<>>]
PyBool(b) == [t |-> "bool", v |-> b]
PyList(es) == [t |-> "list", v |-> es]
PyTuple(es) == [t |-> "tuple", v |-> es]
PyDict(kvs) == [t |-> "dict", v |-> kvs]
PyFn(name, env) == [t |-> "function", v |-> [name |-> name, env |-> env]]
TypeError == [t |-> "TypeError", v |-> <<>>]
ValueError == [t |-> "ValueError", v |-> <<>>]
AttributeError == [t |-> "AttributeError", v |-> <<>>]
IndexError == [t |-> "IndexError", v |-> <<>>]
StopIteration == [t |-> "StopIteration", v |-> <<>>]

IsError(x) ==
    x.t \in {"TypeError", "ValueError", "AttributeError", "IndexError",
             "StopIteration"}

\* Sequencing of statements: the value r of the first is given to the rest
\* of the body, unless evaluating it raised, and then the exception leaves
\* the function.
AndThen(r, rest(_)) == IF IsError(r) THEN r ELSE rest(r)

\* the same where the rest of the body has a set of outcomes
AndThenAny(r, rest(_)) == IF IsError(r) THEN {r} ELSE rest(r)

SeqTypes == {"list", "tuple", "List"}
MapTypes == {"dict", "Map"}

\* Sequences over S of length 0 .. n.
SeqUpTo(S, n) == UNION {[1..k -> S] : k \in 0..n}

RECURSIVE Flatten(_)
\* itertools.chain.from_iterable on a sequence of element sequences
Flatten(ss) == IF ss = <<>> THEN <<>> ELSE Head(ss) \o Flatten(Tail(ss))

Keys(kvs) == {kvs[i][1] : i \in 1..Len(kvs)}
Lookup(kvs, k) == kvs[CHOOSE i \in 1..Len(kvs) : kvs[i][1] = k][2]

\* Python ==.  Sequences, wrappers and numbers compare by type and content;
\* dict and Map compare as sets of items whatever the insertion order.
PyEq(a, b) ==
    IF a.t \in MapTypes /\ b.t \in MapTypes
    THEN a.t = b.t /\ Keys(a.v) = Keys(b.v)
         /\ \A k \in Keys(a.v) : Lookup(a.v, k) = Lookup(b.v, k)
    ELSE a = b


(***************************************************************************)
(* utils/internal.py                                                       *)
(***************************************************************************)
\* isinstance(x, collections.Iterable)
Iterable(x) == x.t \in SeqTypes \cup MapTypes \cup {"str", "Mempty"}

\* iter(x): the elements a for-loop over x sees.  A str yields its
\* characters, a mapping its keys, Mempty nothing (mempty.py: __iter__).
Iter(x) ==
    CASE x.t \in SeqTypes -> x.v
      [] x.t = "str" -> [i \in 1..Len(x.v) |-> PyStr(<<x.v[i]>>)]
      [] x.t \in MapTypes -> [i \in 1..Len(x.v) |-> x.v[i][1]]
      [] OTHER -> <<>>

iter_but_not_str_or_map(maybe_iter) ==
    Iterable(maybe_iter) /\ maybe_iter.t \notin ({"str"} \cup MapTypes)

propagate_self(self) == self

\* an update in which the value already stored for a key wins
DictSet_keep_existing(kvs, k, val) ==
    IF k \in Keys(kvs) THEN kvs ELSE Append(kvs, <<k, val>>)

\* dict.update(d) with one key/value pair: an existing key keeps its place
\* and takes the new value, a new key goes last.
DictSet(kvs, k, val) ==
    IF k \in Keys(kvs)
    THEN [i \in 1..Len(kvs) |-> IF kvs[i][1] = k THEN <<k, val>> ELSE kvs[i]]
    ELSE Append(kvs, <<k, val>>)

RECURSIVE DictUpdatePairs(_, _)
DictUpdatePairs(kvs, pairs) ==
    IF pairs = <<>> THEN kvs
    ELSE DictUpdatePairs(DictSet(kvs, Head(pairs)[1], Head(pairs)[2]),
                         Tail(pairs))

\* What dict.update(d) reads from d: the items of a mapping; otherwise d is
\* iterated and every element must itself be an iterable of two elements
\* (TypeError when an element is not iterable, ValueError when its length
\* is not two).  err names the exception raised ("" when none is).
\* the key/value pairs update reads from the elements es of an iterable
UpdatePairs(es) ==
    IF \E i \in 1..Len(es) : ~Iterable(es[i])
    THEN [err |-> "TypeError", pairs |-> <<>>]
    ELSE IF \E i \in 1..Len(es) : Len(Iter(es[i])) # 2
    THEN [err |-> "ValueError", pairs |-> <<>>]
    ELSE [err |-> "",
          pairs |-> [i \in 1..Len(es) |-> <<Iter(es[i])[1], Iter(es[i])[2]>>]]

UpdateSource(d) ==
    IF d.t \in MapTypes THEN [err |-> "", pairs |-> d.v]
    ELSE IF ~Iterable(d) THEN [err |-> "TypeError", pairs |-> <<>>]
    ELSE UpdatePairs(Iter(d))

RECURSIVE ChainUpdate(_, _)
\* dct.update(d) where src is what update reads from d, then the rest
UpdateFrom(dct, src, rest) ==
    IF src.err # "" THEN src
    ELSE ChainUpdate(DictUpdatePairs(dct, src.pairs), rest)

\* for d in ds: dct.update(d)
ChainUpdate(dct, ds) ==
    IF ds = <<>> THEN [err |-> "", pairs |-> dct]
    ELSE UpdateFrom(dct, UpdateSource(Head(ds)), Tail(ds))

\* chain_dict_update(*ds): a builtin dict, or the exception update raised
\* the builtin dict the updates built, or the exception one of them raised
DictOrRaised(r) ==
    IF r.err # "" THEN [t |-> r.err, v |-> <<>>] ELSE PyDict(r.pairs)

chain_dict_update(ds) == DictOrRaised(ChainUpdate(<<>>, ds))

\* bool(x) is False
Falsy(x) ==
    \/ x.t = "NoneType"
    \/ Iterable(x) /\ Iter(x) = <<>>
    \/ x.t = "int" /\ x.v = 0
    \/ x.t = "bool" /\ ~x.v

(***************************************************************************)
(* Constructors (abc/container.py: the value is stored in _v).             *)
(***************************************************************************)
Just(v) == [t |-> "Just", v |-> v]
Nothing == [t |-> "Nothing", v |-> <<>>]
Left(v) == [t |-> "Left", v |-> v]
Right(v) == [t |-> "Right", v |-> v]
Identity(v) == [t |-> "Identity", v |-> v]
Mempty == [t |-> "Mempty", v |-> <<>>]

\* List(*vs)
List(vs) == [t |-> "List", v |-> vs]

\* Map(v): data = {}; if v: data.update(v)
Map(v) ==
    IF Falsy(v) THEN [t |-> "Map", v |-> <<>>]
    ELSE AndThen(chain_dict_update(<<v>>), LAMBDA r : [t |-> "Map", v |-> r.v])

State(fn) == [t |-> "State", v |-> fn]


(***************************************************************************)
(* utils/monoidal.py: generic monoid inference.                            *)
(***************************************************************************)
\* further builtin and library values the inference is asked about
PyFloat(n) == [t |-> "float", v |-> n]
PyComplex(re, im) == [t |-> "complex", v |-> <<re, im>>]
Decimal(n) == [t |-> "Decimal", v |-> n]
PySet(s) == [t |-> "set", v |-> s]
PyFrozenset(s) == [t |-> "frozenset", v |-> s]
KeysView(s) == [t |-> "dict_keys", v |-> s]
WeakSet == [t |-> "WeakSet", v |-> {}]
PyObject == [t |-> "object", v |-> <<>>]

\* TypeError("No known ... for {!r} instance of {!s}".format(obj, type(obj)))
NoKnownGeneric(obj) == [t |-> "TypeError", v |-> <<obj.t>>]

\* an order of the generic types with Number before bool and Sequence
\* before str
generic_types_special_cases_last ==
    <<"Number", "bool", "Sequence", "str", "Mapping", "Set">>

\* _generic_types: bool before Number, str before Sequence
generic_types == <<"bool", "Number", "str", "Sequence", "Mapping", "Set">>

\* _generic_mempties
generic_mempties ==
    [generic \in {"Number", "str", "Sequence", "Set", "Mapping", "bool"} |->
        CASE generic = "Number" -> PyInt(0)
          [] generic = "str" -> PyStr(<<>>)
          [] generic = "Sequence" -> PyList(<<>>)
          [] generic = "Set" -> PySet({})
          [] generic = "Mapping" -> PyDict(<<>>)
          [] generic = "bool" -> PyBool(FALSE)]

\* a function of the library or of a builtin module, by name
Builtin(name) == [t |-> "builtin_function_or_method", v |-> name]

\* _generic_mappends
generic_mappends ==
    [generic \in {"Number", "str", "Sequence", "Mapping", "Set", "bool"} |->
        CASE generic \in {"Number", "str"} -> Builtin("add")
          [] generic = "Sequence" -> Builtin("_seq_mappend")
          [] generic = "Mapping" -> Builtin("chain_dict_update")
          [] generic \in {"Set", "bool"} -> Builtin("or_")]

\* _generic_mconcats
generic_mconcats ==
    [generic \in {"str", "Sequence", "Mapping"} |->
        CASE generic = "str" -> Builtin("str.join")
          [] generic = "Sequence" -> Builtin("_seq_mappend(*seqs)")
          [] generic = "Mapping" -> Builtin("chain_dict_update(*ds)")]

\* _builtin_to_generic, keyed by type(obj)
builtin_to_generic ==
    [type \in {"int", "float", "complex", "str", "list", "tuple", "dict",
               "set", "frozenset", "bool"} |->
        CASE type \in {"int", "float", "complex"} -> "Number"
          [] type = "str" -> "str"
          [] type \in {"list", "tuple"} -> "Sequence"
          [] type = "dict" -> "Mapping"
          [] type \in {"set", "frozenset"} -> "Set"
          [] type = "bool" -> "bool"]

\* isinstance(obj, generic) for the abstract classes of _generic_types: a
\* bool is an int, Decimal is registered as a Number, a str is a Sequence,
\* List is a Sequence, Map a Mapping, the keys view of a dict a Set
isinstance(obj, generic) ==
    CASE generic = "bool" -> obj.t = "bool"
      [] generic = "Number" ->
            obj.t \in {"bool", "int", "float", "complex", "Decimal"}
      [] generic = "str" -> obj.t = "str"
      [] generic = "Sequence" -> obj.t \in {"str", "list", "tuple", "List"}
      [] generic = "Mapping" -> obj.t \in {"dict", "Map"}
      [] generic = "Set" -> obj.t \in {"set", "frozenset", "dict_keys"}
      [] OTHER -> FALSE

RECURSIVE first_isinstance(_, _)
\* next(filter(lambda g: isinstance(obj, g), generics), None)
first_isinstance(obj, generics) ==
    IF generics = <<>> THEN "None"
    ELSE IF isinstance(obj, Head(generics)) THEN Head(generics)
    ELSE first_isinstance(obj, Tail(generics))

\* _get_generic_type(obj, generics, known_to_generics): the look-up table
\* under type(obj), then the first isinstance match; "None" when nothing
\* matches
get_generic_type_in(obj, generics, known_to_generics) ==
    IF obj.t \in DOMAIN known_to_generics THEN known_to_generics[obj.t]
    ELSE first_isinstance(obj, generics)

\* _get_generic_type(obj) with its default tables
get_generic_type(obj) ==
    get_generic_type_in(obj, generic_types, builtin_to_generic)

\* get_generic_mempty(obj, known_mempties, generics=, known_to_generics=)
get_generic_mempty_in(obj, known_mempties, generics, known_to_generics) ==
    IF get_generic_type_in(obj, generics, known_to_generics)
           \in DOMAIN known_mempties
    THEN known_mempties[get_generic_type_in(obj, generics, known_to_generics)]
    ELSE NoKnownGeneric(obj)

\* get_generic_mempty(obj): the known mempty, or TypeError
get_generic_mempty(obj) ==
    get_generic_mempty_in(obj, generic_mempties, generic_types,
                          builtin_to_generic)

\* get_generic_mappend(obj, generics, known_to_generics, known_mappends):
\* the mappend, or TypeError
get_generic_mappend_in(obj, generics, known_to_generics, known_mappends) ==
    IF get_generic_type_in(obj, generics, known_to_generics)
           \in DOMAIN known_mappends
    THEN known_mappends[get_generic_type_in(obj, generics, known_to_generics)]
    ELSE NoKnownGeneric(obj)

get_generic_mappend(obj) ==
    get_generic_mappend_in(obj, generic_types, builtin_to_generic,
                           generic_mappends)

\* _seq_mappend(*seqs) = list(chain.from_iterable(seqs))
seq_mappend(seqs) ==
    IF \E i \in 1..Len(seqs) : ~Iterable(seqs[i]) THEN TypeError
    ELSE PyList(Flatten([i \in 1..Len(seqs) |-> Iter(seqs[i])]))

\* the numeric tower of operator.add: int < float < complex; Decimal mixes
\* with int only
NumTypes == {"int", "float", "complex", "Decimal"}
NumRank(x) == CASE x.t = "int" -> 1 [] x.t = "float" -> 2 [] OTHER -> 3
Re(x) == IF x.t = "complex" THEN x.v[1] ELSE x.v
Im(x) == IF x.t = "complex" THEN x.v[2] ELSE 0
NumAdd(a, b) ==
    CASE "Decimal" \in {a.t, b.t} ->
            IF {a.t, b.t} \subseteq {"Decimal", "int"}
            THEN Decimal(a.v + b.v) ELSE TypeError
      [] a.t = "complex" \/ b.t = "complex" ->
            PyComplex(Re(a) + Re(b), Im(a) + Im(b))
      [] a.t = "float" \/ b.t = "float" -> PyFloat(a.v + b.v)
      [] OTHER -> PyInt(a.v + b.v)

RECURSIVE mempty(_)
RECURSIVE mappend(_, _)
\* Mempty._reflected_mappend(other) = mappend(other, mempty(other)), which
\* is Mempty.__add__, __radd__, __or__ and __ror__
reflected_mappend(other) ==
    AndThen(mempty(other), LAMBDA e : mappend(other, e))

\* operator.add on the modelled values; no builtin type adds a Mempty, so
\* that Mempty.__radd__ is called
add(a, b) ==
    CASE a.t = "Mempty" -> reflected_mappend(b)
      [] b.t = "Mempty" -> reflected_mappend(a)
      [] a.t \in NumTypes /\ b.t \in NumTypes -> NumAdd(a, b)
      [] a.t = "str" /\ b.t = "str" -> PyStr(a.v \o b.v)
      [] a.t = "list" /\ b.t = "list" -> PyList(a.v \o b.v)
      [] a.t = "tuple" /\ b.t = "tuple" -> PyTuple(a.v \o b.v)
      [] OTHER -> TypeError

\* operator.mul on the modelled values
mul(a, b) ==
    CASE a.t = "int" /\ b.t = "int" -> PyInt(a.v * b.v)
      [] OTHER -> TypeError

\* operator.or_ on the modelled values: logical or of two bools, the union
\* of two sets in the type of the left one (a set for two keys views)
or_(a, b) ==
    CASE a.t = "Mempty" -> reflected_mappend(b)
      [] b.t = "Mempty" -> reflected_mappend(a)
      [] a.t = "bool" /\ b.t = "bool" -> PyBool(a.v \/ b.v)
      [] a.t \in {"set", "frozenset"} /\ b.t \in {"set", "frozenset"} ->
            [t |-> a.t, v |-> a.v \cup b.v]
      [] a.t = "dict_keys" /\ b.t \in {"set", "frozenset", "dict_keys"} ->
            PySet(a.v \cup b.v)
      [] a.t \in {"set", "frozenset"} /\ b.t = "dict_keys" ->
            PySet(a.v \cup b.v)
      [] OTHER -> TypeError

\* a function of a table of mappends applied to (a, b)
apply_mappend(f, a, b) ==
    CASE f.v = "add" -> add(a, b)
      [] f.v = "_seq_mappend" -> seq_mappend(<<a, b>>)
      [] f.v = "chain_dict_update" -> chain_dict_update(<<a, b>>)
      [] f.v = "or_" -> or_(a, b)
      [] OTHER -> TypeError

\* get_generic_mappend(obj)(a, b)
generic_mappend(obj, a, b) ==
    IF IsError(get_generic_mappend(obj)) THEN get_generic_mappend(obj)
    ELSE apply_mappend(get_generic_mappend(obj), a, b)

RECURSIVE reduce_mappend(_, _, _)
\* functools.reduce(f, rest, acc) for a function f of a table of mappends
reduce_mappend(f, acc, rest) ==
    IF rest = <<>> \/ IsError(acc) THEN acc
    ELSE reduce_mappend(f, apply_mappend(f, acc, Head(rest)),
                        Tail(rest))

\* a function of a table of mconcats applied to the tuple monoids: ''.join
\* takes nothing but str
apply_mconcat(f, monoids) ==
    CASE f.v = "str.join" ->
            IF \E i \in 1..Len(monoids) : monoids[i].t # "str" THEN TypeError
            ELSE PyStr(Flatten([i \in 1..Len(monoids) |-> monoids[i].v]))
      [] f.v = "_seq_mappend(*seqs)" -> seq_mappend(monoids)
      [] f.v = "chain_dict_update(*ds)" -> chain_dict_update(monoids)
      [] OTHER -> TypeError

\* the keyword arguments the inference functions take; the default of each
\* is the module-level table
Kwargs(generics, known_to_generics, known_mempties, known_mappends, known_mconcats) ==
    [t |-> "kwargs",
     v |-> [generics |-> generics, known_to_generics |-> known_to_generics,
            known_mempties |-> known_mempties,
            known_mappends |-> known_mappends,
            known_mconcats |-> known_mconcats]]

\* no keyword argument given: every table is the module-level one
DefaultKwargs ==
    Kwargs(generic_types, builtin_to_generic, generic_mempties,
           generic_mappends, generic_mconcats)

\* a _make_generic_mconcat that asks for the mempty of the first monoid
\* before it builds the mconcat
make_generic_mconcat_needing_mempty(monoids, kwargs) ==
    AndThen(get_generic_mempty_in(monoids[1], kwargs.v.known_mempties,
                                  kwargs.v.generics,
                                  kwargs.v.known_to_generics),
            LAMBDA e :
                AndThen(get_generic_mappend_in(monoids[1], kwargs.v.generics,
                                               kwargs.v.known_to_generics,
                                               kwargs.v.known_mappends),
                        LAMBDA f :
                            reduce_mappend(f, monoids[1], Tail(monoids))))

\* _make_generic_mconcat(monoids[0], **kwargs)(monoids): the generic type
\* is looked up with the default tables; a known mconcat is used, else
\* partial(reduce, get_generic_mappend(monoid, **kwargs))
make_generic_mconcat(monoids, kwargs) ==
    IF get_generic_type(monoids[1]) \in DOMAIN kwargs.v.known_mconcats
    THEN apply_mconcat(kwargs.v.known_mconcats[get_generic_type(monoids[1])],
                       monoids)
    ELSE AndThen(get_generic_mappend_in(monoids[1], kwargs.v.generics,
                                        kwargs.v.known_to_generics,
                                        kwargs.v.known_mappends),
                 LAMBDA f : reduce_mappend(f, monoids[1], Tail(monoids)))

\* generic_mconcat(*monoids, **kwargs); monoids[0] of no monoid raises
generic_mconcat(monoids, kwargs) ==
    IF monoids = <<>> THEN IndexError
    ELSE make_generic_mconcat(monoids, kwargs)

\* is_monoid(obj): a Monoid instance, or both a generic mempty and a
\* generic mappend are known
is_monoid(obj) ==
    \/ obj.t \in {"List", "Map", "Mempty"}
    \/ /\ ~IsError(get_generic_mempty(obj))
       /\ ~IsError(get_generic_mappend(obj))

(***************************************************************************)
(* Function application.  Call(f, x) is f(x); it is defined after the      *)
(* methods the modelled functions use.                                     *)
(***************************************************************************)
RECURSIVE Call(_, _)

(***************************************************************************)
(* concrete/maybe.py, concrete/either.py, concrete/identity.py             *)
(***************************************************************************)
Maybe_unit(v) == Just(v)

Just_fmap(self, func) == AndThen(Call(func, self.v), Just)

\* a bind that wraps the result of the continuation once more
Just_bind_wrapping(self, bindee) == AndThen(Call(bindee, self.v), Just)

Just_bind(self, bindee) == Call(bindee, self.v)

\* super(Maybe, self).__new__(Just, v) is object.__new__(Just, v), no class
\* between Maybe and object defining __new__.  Just overrides __new__, so
\* from Python 3.3 on the extra argument v makes object.__new__ raise
\* TypeError; Python 3.0 - 3.2 only warn and return the instance, which
\* Container.__init__ then fills with v.  The outcomes of both are kept.
object_new_Just(v) == {TypeError, Just(v)}

\* Maybe(v, checker): the set of the outcomes
Maybe_new(v, checker) ==
    AndThenAny(Call(checker, v), LAMBDA ok :
        IF ~Falsy(ok) THEN object_new_Just(v) ELSE {Nothing})

\* _Nothing.__new__: if cls._inst is None: cls._inst = Container.__new__(cls)
Nothing_new(i, n) ==
    IF i = 0 THEN [inst |-> n + 1, created |-> n + 1]
    ELSE [inst |-> i, created |-> n]

\* Just.filter(predicate)
Just_filter(self, predicate) ==
    AndThen(Call(predicate, self.v), LAMBDA ok :
        IF ~Falsy(ok) THEN self ELSE Nothing)

Just_get_or(self, default) == self.v

Just_get_or_call(self, func, a) == self.v

Nothing_get_or(default) == default

Nothing_get_or_call(func, a) == Call(func, a)

\* the default checker of Maybe: lambda v: v is not None
is_not_None == PyFn("Maybe.checker", <<>>)

\* _Nothing.or_else(default) = Maybe(default): the set of the outcomes
Nothing_or_else(default) == Maybe_new(default, is_not_None)

\* _Nothing.or_call(func, *args) = Maybe(func(*args))
Nothing_or_call(func, a) ==
    AndThenAny(Call(func, a), LAMBDA r : Maybe_new(r, is_not_None))

Either_unit(v) == Right(v)

Right_fmap(self, func) == AndThen(Call(func, self.v), Right)

\* a bind that rejects a result that is not an Either
Right_bind_checked(self, bindee) ==
    LET r == Call(bindee, self.v) IN
    IF r.t \in {"Left", "Right"} THEN r ELSE TypeError

Right_bind(self, bindee) == Call(bindee, self.v)

Identity_unit(v) == Identity(v)

Identity_fmap(self, func) == AndThen(Call(func, self.v), Identity)

(***************************************************************************)
(* concrete/list.py                                                        *)
(***************************************************************************)
\* the exception the first failing element of a comprehension raised
FirstError(rs) == rs[CHOOSE i \in 1..Len(rs) :
                        IsError(rs[i]) /\ \A j \in 1..(i-1) : ~IsError(rs[j])]
AnyError(rs) == \E i \in 1..Len(rs) : IsError(rs[i])

\* what is made of the results rs of a comprehension, unless an element
\* raised
Collected(rs, make(_)) == IF AnyError(rs) THEN FirstError(rs) ELSE make(rs)

List_mempty == PyTuple(<<>>)

\* a unit that takes the elements of an iterable as the contents
List_unit_splat(v) ==
    IF iter_but_not_str_or_map(v) THEN List(Iter(v)) ELSE List(<<v>>)

List_unit(v) == List(<<v>>)

List_fmap(self, func) ==
    Collected([i \in 1..Len(self.v) |-> Call(func, self.v[i])], List)

\* [f(x) for x in other for f in self]: the order of the docstring
List_apply_value_major(self, other) ==
    IF ~Iterable(other) THEN TypeError
    ELSE LET xs == Iter(other) IN
         Collected(Flatten([j \in 1..Len(xs) |->
                      [i \in 1..Len(self.v) |-> Call(self.v[i], xs[j])]]),
                   List)

\* [f(x) for f in self for x in other]
List_apply(self, other) ==
    IF ~Iterable(other) THEN TypeError
    ELSE LET xs == Iter(other) IN
         Collected(Flatten([i \in 1..Len(self.v) |->
                      [j \in 1..Len(xs) |-> Call(self.v[i], xs[j])]]),
                   List)

\* a bind that does not flatten
List_bind_nested(self, bindee) == List_fmap(self, bindee)

\* List(*chain.from_iterable(self.fmap(bindee)))
List_bind(self, bindee) ==
    AndThen(List_fmap(self, bindee), LAMBDA m :
        IF \E i \in 1..Len(m.v) : ~Iterable(m.v[i]) THEN TypeError
        ELSE List(Flatten([i \in 1..Len(m.v) |-> Iter(m.v[i])])))

\* a mappend that takes every iterable
List_mappend_unchecked(self, other) ==
    IF ~Iterable(other) THEN TypeError
    ELSE List(Iter(self) \o Iter(other))

List_mappend(self, other) ==
    IF ~iter_but_not_str_or_map(other) THEN TypeError
    ELSE List(Iter(self) \o Iter(other))

\* List(*chain.from_iterable(monoids))
List_mconcat(monoids) ==
    IF \E i \in 1..Len(monoids) : ~Iterable(monoids[i]) THEN TypeError
    ELSE List(Flatten([i \in 1..Len(monoids) |-> Iter(monoids[i])]))


(***************************************************************************)
(* concrete/map.py                                                         *)
(***************************************************************************)
\* Map.mempty: the cached cls()
Map_mempty == Map(PyNone)

\* Map({k: func(v) for k, v in self.v.items()})
Map_fmap(self, func) ==
    Collected([i \in 1..Len(self.v) |-> Call(func, self.v[i][2])],
              LAMBDA rs :
                  Map(PyDict([i \in 1..Len(self.v) |->
                                 <<self.v[i][1], rs[i]>>])))

\* the items of self whose key is also a key of other
CommonItems(self, other) ==
    SelectSeq(self.v, LAMBDA kv : kv[1] \in Keys(other.v))

\* an apply that carries the keys missing from other through unchanged
Map_apply_carrying(self, other) ==
    IF other.t \notin MapTypes THEN AttributeError
    ELSE Collected([i \in 1..Len(self.v) |->
                       IF self.v[i][1] \in Keys(other.v)
                       THEN Call(self.v[i][2], Lookup(other.v, self.v[i][1]))
                       ELSE self.v[i][2]],
                   LAMBDA rs :
                       Map(PyDict([i \in 1..Len(self.v) |->
                                      <<self.v[i][1], rs[i]>>])))

\* keys = set(self.keys()) & set(other.keys())
\* Map({k: self[k](other[k]) for k in keys})
Map_apply(self, other) ==
    IF other.t \notin MapTypes THEN AttributeError
    ELSE LET common == CommonItems(self, other) IN
         Collected([i \in 1..Len(common) |->
                       Call(common[i][2], Lookup(other.v, common[i][1]))],
                   LAMBDA rs :
                       Map(PyDict([i \in 1..Len(common) |->
                                      <<common[i][1], rs[i]>>])))

Map_mappend(self, other) ==
    AndThen(chain_dict_update(<<self, other>>), Map)

\* Map.mconcat(*ds) = cls(chain_dict_update(*ds))
Map_mconcat(ds) == AndThen(chain_dict_update(ds), Map)

(***************************************************************************)
(* concrete/mempty.py                                                      *)
(***************************************************************************)
Mempty_mappend(self, other) == other

(***************************************************************************)
(* concrete/writer.py                                                      *)
(***************************************************************************)
\* Writer(v, log): a log that is not a monoid is put into a List
Writer(v, log) ==
    [t |-> "Writer",
     v |-> <<v, IF is_monoid(log) THEN log ELSE List_unit(log)>>]

Writer_unit(v) == Writer(v, Mempty)

\* an fmap that rebuilds the Writer without its log
Writer_fmap_fresh_log(self, f) ==
    AndThen(Call(f, self.v[1]), LAMBDA r : Writer(r, Mempty))

Writer_fmap(self, f) ==
    AndThen(Call(f, self.v[1]), LAMBDA r : Writer(r, self.v[2]))

(***************************************************************************)
(* concrete/state.py                                                       *)
(***************************************************************************)
\* State.unit(v) = State(lambda s: (v, s))
State_unit(v) == State(PyFn("State.unit.lambda", <<v>>))

\* State.fmap(func) = State(state_mapper), the closure over func and self
State_fmap(self, func) == State(PyFn("state_mapper", <<func, self>>))

\* State.__call__(state) = self.v(state)
State_call(self, state) == Call(self.v, state)

\* def state_mapper(state, func=func, runner=self)
state_mapper(state, func, runner) ==
    AndThen(State_call(runner, state), LAMBDA r :
        LET result == r.v[1]
            new_state == r.v[2]
        IN AndThen(Call(func, result), LAMBDA fr : PyTuple(<<fr, state>>)))

\* State.apply(applicative) = State(state_applier)
State_apply(self, applicative) ==
    State(PyFn("state_applier", <<self, applicative>>))

\* def state_applier(state, state_f=self, state_v=applicative):
\*     func, func_state = state_f(state)
\*     result, res_state = state_v(func_state)
\*     return (func(result), res_state)
state_applier(state, state_f, state_v) ==
    AndThen(Call(state_f, state), LAMBDA rf :
    AndThen(Call(state_v, rf.v[2]), LAMBDA rv :
    AndThen(Call(rf.v[1], rv.v[1]), LAMBDA y : PyTuple(<<y, rv.v[2]>>))))

\* State.bind(bindee) = State(state_binder)
State_bind(self, bindee) == State(PyFn("state_binder", <<self, bindee>>))

\* a state_binder that runs the State the bindee makes on the state the
\* whole computation was given
state_binder_on_initial(state, runner, maker) ==
    AndThen(Call(runner, state), LAMBDA r :
    AndThen(Call(maker, r.v[1]), LAMBDA st : Call(st, state)))

\* def state_binder(state, runner=self, maker=bindee):
\*     value, runner_state = runner(state)
\*     return maker(value)(runner_state)
state_binder(state, runner, maker) ==
    AndThen(Call(runner, state), LAMBDA r :
    AndThen(Call(maker, r.v[1]), LAMBDA st : Call(st, r.v[2])))

(***************************************************************************)
(* concrete/reader.py (the __name__ and __doc__ given to the closures are  *)
(* left out: no operation reads them).                                     *)
(***************************************************************************)
\* iscallable(func) = hasattr(func, '__call__')
iscallable(func) == func.t \in {"function", "Reader", "State"}

\* Reader(v): __new__ rejects a v that is not callable
Reader(v) == IF iscallable(v) THEN [t |-> "Reader", v |-> v] ELSE TypeError

\* Reader.__call__(env) = self.v(env)
Reader_call(self, env) == Call(self.v, env)

\* Reader.unit(v) = Reader(const(v))
Reader_unit(v) == Reader(PyFn("constant", <<v>>))

\* Reader.apply(applicative) = Reader(applied); applicative.v is read for
\* the name of the closure
Reader_apply(self, applicative) ==
    IF applicative.t \notin {"Reader", "State", "Just", "Left", "Right",
                            "Identity", "List", "Map", "Writer"}
    THEN AttributeError
    ELSE Reader(PyFn("applied", <<self, applicative>>))

\* def applied(env, f=self, g=applicative): h = f(env); return h(g(env))
applied(env, f, g) ==
    AndThen(Call(f, env), LAMBDA h :
    AndThen(Call(g, env), LAMBDA x : Call(h, x)))

\* Reader.bind(g) = Reader(bound)
Reader_bind(self, g) == Reader(PyFn("bound", <<self, g>>))

\* a bound that runs the Reader the continuation returns on the result a
\* instead of the environment
bound_on_result(env, f, g) ==
    AndThen(Call(f, env), LAMBDA a :
    AndThen(Call(g, a), LAMBDA r : Call(r, a)))

\* def bound(env, f=self, g=g): a = f(env); r = g(a); return r(env)
bound(env, f, g) ==
    AndThen(Call(f, env), LAMBDA a :
    AndThen(Call(g, a), LAMBDA r : Call(r, env)))

(***************************************************************************)
(* Method dispatch: functor.fmap(f) (funcs/lifted.py fmap) and             *)
(* monad.bind(f) (abc/monad.py __rshift__).                                *)
(***************************************************************************)
\* an fmap that maps the payload of a Left like that of a Right
fmap_through_Left(f, functor) ==
    CASE functor.t = "Just" -> Just_fmap(functor, f)
      [] functor.t = "Nothing" -> propagate_self(functor)
      [] functor.t = "Left" ->
             AndThen(Call(f, functor.v), Left)
      [] functor.t = "Right" -> Right_fmap(functor, f)
      [] functor.t = "Identity" -> Identity_fmap(functor, f)
      [] functor.t = "List" -> List_fmap(functor, f)
      [] functor.t = "Map" -> Map_fmap(functor, f)
      [] functor.t = "Writer" -> Writer_fmap(functor, f)
      [] functor.t = "State" -> State_fmap(functor, f)
      [] OTHER -> AttributeError

fmap(f, functor) ==
    CASE functor.t = "Just" -> Just_fmap(functor, f)
      [] functor.t \in {"Nothing", "Left"} -> propagate_self(functor)
      [] functor.t = "Right" -> Right_fmap(functor, f)
      [] functor.t = "Identity" -> Identity_fmap(functor, f)
      [] functor.t = "List" -> List_fmap(functor, f)
      [] functor.t = "Map" -> Map_fmap(functor, f)
      [] functor.t = "Writer" -> Writer_fmap(functor, f)
      [] functor.t = "State" -> State_fmap(functor, f)
      [] OTHER -> AttributeError

rshift(monad, f) ==
    CASE monad.t = "Just" -> Just_bind(monad, f)
      [] monad.t \in {"Nothing", "Left"} -> propagate_self(monad)
      [] monad.t = "Right" -> Right_bind(monad, f)
      [] monad.t = "List" -> List_bind(monad, f)
      [] OTHER -> AttributeError

RECURSIVE multibind(_, _)
\* reduce(rshift, binds, monad)
multibind(monad, binds) ==
    IF binds = <<>> \/ IsError(monad) THEN monad
    ELSE multibind(rshift(monad, Head(binds)), Tail(binds))

\* unit(v, applicative) = applicative.unit(v), the static or class method
unit(v, applicative) ==
    CASE applicative.t \in {"Just", "Nothing"} -> Maybe_unit(v)
      [] applicative.t \in {"Left", "Right"} -> Either_unit(v)
      [] applicative.t = "Identity" -> Identity_unit(v)
      [] applicative.t = "List" -> List_unit(v)
      [] OTHER -> AttributeError

\* cons(x, xs) = mappend(List(x), xs)
cons(x, xs) == mappend(List(<<x>>), xs)

\* mcons(p, q) = p >> (lambda x: q >> (lambda xs: p.unit(cons(x, xs))))
mcons_inner(p, x, xs) ==
    AndThen(cons(x, xs), LAMBDA l : unit(l, p))

mcons_outer(p, q, x) == rshift(q, PyFn("mcons.inner", <<p, x>>))

mcons(p, q) == rshift(p, PyFn("mcons.outer", <<p, q>>))

RECURSIVE reduce_mcons(_, _)
\* reduce(lambda q, p: mcons(p, q), ps, q)
reduce_mcons(q, ps) ==
    IF ps = <<>> \/ IsError(q) THEN q
    ELSE reduce_mcons(mcons(Head(ps), q), Tail(ps))

\* reversed(monads)
reversed(monads) ==
    [i \in 1..Len(monads) |-> monads[Len(monads) + 1 - i]]

\* a sequence that folds the monads from the first to the last
sequence_in_order(monads) ==
    IF monads = <<>> THEN IndexError
    ELSE AndThen(unit(List(<<>>), monads[1]),
                 LAMBDA q : reduce_mcons(q, monads))

\* sequence(*monads) = reduce(lambda q, p: mcons(p, q), reversed(monads),
\*                            monads[0].unit(List()))
sequence(monads) ==
    IF monads = <<>> THEN IndexError
    ELSE AndThen(unit(List(<<>>), monads[1]),
                 LAMBDA q : reduce_mcons(q, reversed(monads)))

\* map(func, xs), consumed by the call sequence(*map(func, xs)): the first
\* exception func raises leaves the call
map(func, xs) == [i \in 1..Len(xs) |-> Call(func, xs[i])]

Raised(rs) == {i \in 1..Len(rs) : IsError(rs[i])}

sequence_or_raised(monads) ==
    IF Raised(monads) # {}
    THEN monads[CHOOSE i \in Raised(monads) : \A j \in Raised(monads) : i <= j]
    ELSE sequence(monads)

\* mapM(func, *xs) = sequence(*map(func, xs))
mapM(func, xs) == sequence_or_raised(map(func, xs))

\* applicative.apply(other), applicative * other (Maybe and Either):
\* Just.apply is other.fmap(self.v), Right.apply is fmap(self.v, other)
Just_apply(self, other) == fmap(self.v, other)

Right_apply(self, applicative) == fmap(self.v, applicative)

Applicative_mul(self, f) ==
    CASE self.t = "Just" -> Just_apply(self, f)
      [] self.t = "Right" -> Right_apply(self, f)
      [] self.t \in {"Nothing", "Left"} -> propagate_self(self)
      [] OTHER -> AttributeError

\* maybe.filter(predicate)
filter(self, predicate) ==
    CASE self.t = "Just" -> Just_filter(self, predicate)
      [] self.t = "Nothing" -> propagate_self(self)
      [] OTHER -> AttributeError

\* maybe.get_or(default)
get_or(self, default) ==
    CASE self.t = "Just" -> Just_get_or(self, default)
      [] self.t = "Nothing" -> Nothing_get_or(default)
      [] OTHER -> AttributeError

\* maybe.get_or_call(func, a)
get_or_call(self, func, a) ==
    CASE self.t = "Just" -> Just_get_or_call(self, func, a)
      [] self.t = "Nothing" -> Nothing_get_or_call(func, a)
      [] OTHER -> AttributeError

\* maybe.or_else(default): the set of the outcomes
or_else(self, default) ==
    CASE self.t = "Just" -> {propagate_self(self)}
      [] self.t = "Nothing" -> Nothing_or_else(default)
      [] OTHER -> {AttributeError}

\* maybe.or_call(func, a): the set of the outcomes
or_call(self, func, a) ==
    CASE self.t = "Just" -> {propagate_self(self)}
      [] self.t = "Nothing" -> Nothing_or_call(func, a)
      [] OTHER -> {AttributeError}

(***************************************************************************)
(* funcs/monoid.py                                                         *)
(***************************************************************************)
\* hasattr(monoid, 'mempty'): the class attribute, else the generic one
mempty(monoid) ==
    CASE monoid.t = "List" -> List_mempty
      [] monoid.t = "Map" -> Map_mempty
      [] monoid.t = "Mempty" -> Mempty
      [] OTHER -> get_generic_mempty(monoid)

\* hasattr(existing, 'mappend'): the method, else the generic mappend
mappend(existing, other) ==
    CASE existing.t = "List" -> List_mappend(existing, other)
      [] existing.t = "Map" -> Map_mappend(existing, other)
      [] existing.t = "Mempty" -> Mempty_mappend(existing, other)
      [] OTHER -> generic_mappend(existing, existing, other)

RECURSIVE mconcat(_, _)
\* mempty.py: Mempty.mconcat(*monoids, **kwargs) once the Mempty are
\* filtered out of monoids
mconcat_or_Mempty(monoids, kwargs) ==
    IF monoids = <<>> THEN Mempty ELSE mconcat(monoids, kwargs)

IsNotMempty(x) == x.t # "Mempty"

Mempty_mconcat(monoids, kwargs) ==
    mconcat_or_Mempty(SelectSeq(monoids, IsNotMempty), kwargs)

\* mconcat(*monoids, **kwargs): hasattr(monoids[0], 'mconcat'): the
\* method, called as mconcat_(*monoids) without the keyword arguments, else
\* the generic mconcat
mconcat(monoids, kwargs) ==
    IF monoids = <<>> THEN IndexError
    ELSE CASE monoids[1].t = "List" -> List_mconcat(monoids)
           [] monoids[1].t = "Map" -> Map_mconcat(monoids)
           [] monoids[1].t = "Mempty" -> Mempty_mconcat(monoids, DefaultKwargs)
           [] OTHER -> generic_mconcat(monoids, kwargs)

\* a Writer.bind that puts the log of the new Writer first
Writer_bind_new_log_first(self, func) ==
    AndThen(Call(func, self.v[1]), LAMBDA w :
        IF w.t # "Writer" THEN AttributeError
        ELSE AndThen(mappend(w.v[2], self.v[2]), LAMBDA log :
                 Writer(w.v[1], log)))

\* Writer.bind(func): w = func(self.v[0]);
\* return self.__class__(w.v[0], mappend(self.v[1], w.v[1]))
\* (a func that returns a number gives a value without the attribute v)
Writer_bind(self, func) ==
    AndThen(Call(func, self.v[1]), LAMBDA w :
        IF w.t # "Writer" THEN AttributeError
        ELSE AndThen(mappend(self.v[2], w.v[2]), LAMBDA log :
                 Writer(w.v[1], log)))

\* an apply that merges the log of the left operand into the result, as
\* bind does
Writer_apply_combining(self, applicative) ==
    AndThen(fmap(self.v[1], applicative), LAMBDA w :
        IF w.t # "Writer" THEN w
        ELSE AndThen(mappend(self.v[2], w.v[2]), LAMBDA log :
                 Writer(w.v[1], log)))

\* Writer.apply(applicative) = fmap(self.v[0], applicative)
Writer_apply(self, applicative) == fmap(self.v[1], applicative)

(***************************************************************************)
(* abc/monoid.py: the default mconcat, on the classes that inherit it      *)
(* (Product of concrete/monoids.py, Test of tests/test_monoid.py) and on   *)
(* List.mappend, which List.mconcat replaces.                              *)
(***************************************************************************)
Test(v) == [t |-> "Test", v |-> v]

\* a class object
Cls(name) == [t |-> "type", v |-> name]

\* Test.mappend(self, other) = Test(self.v + other.v)
Test_mappend(self, other) ==
    IF self.t # "Test" \/ other.t # "Test" THEN AttributeError
    ELSE Test(self.v + other.v)

\* cls.mappend(a, b)
cls_mappend(cls, a, b) ==
    CASE cls = "Product" -> mul(a, b)
      [] cls = "Test" -> Test_mappend(a, b)
      [] cls = "List" -> List_mappend(a, b)

\* cls.mempty
cls_mempty(cls) ==
    CASE cls = "Product" -> PyInt(1)
      [] cls = "Test" -> PyInt(0)
      [] cls = "List" -> List_mempty

RECURSIVE reduce(_, _, _)
\* functools.reduce(cls.mappend, rest, acc)
reduce(cls, acc, rest) ==
    IF rest = <<>> \/ IsError(acc) THEN acc
    ELSE reduce(cls, cls_mappend(cls, acc, Head(rest)), Tail(rest))

\* a fold seeded by mempty that takes any number of operands
Monoid_mconcat_seeded(cls, monoids) == reduce(cls, cls_mempty(cls), monoids)

Monoid_mconcat(cls, monoids) ==
    IF Len(monoids) < 2 THEN TypeError
    ELSE reduce(cls, Head(monoids), Tail(monoids))

(***************************************************************************)
(* funcs/pure.py                                                           *)
(***************************************************************************)
identity == PyFn("identity", <<>>)

\* compose(*fs)
compose(fs) ==
    IF fs = <<>> THEN identity
    ELSE IF Len(fs) = 1 THEN fs[1]
    ELSE PyFn("composed", fs)

RECURSIVE composed(_, _)
\* ret = fs[-1](a); for f in fs[-2::-1]: ret = f(ret)
composed(fs, a) ==
    IF Len(fs) = 1 THEN Call(fs[1], a)
    ELSE Call(fs[1], composed(Tail(fs), a))


(***************************************************************************)
(* The callables the operations are exercised with (the lambdas of the     *)
(* test suite).  Arithmetic on a value that is not a number raises         *)
(* TypeError.                                                              *)
(***************************************************************************)
\* add_two = lambda x: x+2
add_two(x) == IF x.t = "int" THEN PyInt(x.v + 2) ELSE TypeError

\* plus_other = lambda x: lambda y: x+y
plus_other(x) == PyFn("plus_other.lambda", <<x>>)

\* the inner lambda y: x+y of plus_other
plus_other_lambda(x, y) ==
    IF x.t = "int" /\ y.t = "int" THEN PyInt(x.v + y.v) ELSE TypeError

\* test_maybe.py: c = lambda x: x & 1
c(x) == IF x.t = "int" THEN PyInt(x.v % 2) ELSE TypeError

\* test_either.py: def even(x): return not x % 2
even(x) == IF x.t = "int" THEN PyBool(x.v % 2 = 0) ELSE TypeError

\* test_either.py: raise_if_odd returns an even x and raises TypeError
\* for an odd one
raise_if_odd(x) ==
    IF x.t = "int" /\ x.v % 2 = 0 THEN x ELSE TypeError

\* test_reader.py: def inc(x): return x+1
inc(x) == IF x.t = "int" THEN PyInt(x.v + 1) ELSE TypeError

\* test_reader.py: def mul100(x): return x*100
mul100(x) == IF x.t = "int" THEN PyInt(x.v * 100) ELSE TypeError

\* test_reader.py: add_two(x) returns the closure adder
reader_add_two(x) == PyFn("adder", <<x>>)

\* test_reader.py: def adder(y): return x+y
adder(x, y) == IF x.t = "int" /\ y.t = "int" THEN PyInt(x.v + y.v) ELSE TypeError

\* test_reader.py: def madd(x): return R(add_two(x))
madd(x) == Reader(reader_add_two(x))

\* h = lambda x: x*x
h(x) == IF x.t = "int" THEN PyInt(x.v * x.v) ELSE TypeError

\* test_maybe.py: m_add_two = lambda x: Just(x+2)
maybe_m_add_two(x) == IF x.t = "int" THEN Just(PyInt(x.v + 2)) ELSE TypeError

\* the string 'added two' of test_writer.py
added_two == PyStr(<<"a", "d", "d", "e", "d", " ", "t", "w", "o">>)

\* test_writer.py: m_add_two = lambda x: Writer(x+2, List.unit('added two'))
writer_m_add_two(x) ==
    IF x.t = "int" THEN Writer(PyInt(x.v + 2), List_unit(added_two))
    ELSE TypeError

\* test_writer.py: str_add_two = lambda x: Writer(add_two(x), ' added two')
str_add_two(x) ==
    IF x.t = "int" THEN Writer(PyInt(x.v + 2), PyStr(<<" ">> \o added_two.v))
    ELSE TypeError

\* test_writer.py: int_add_two = lambda x: Writer(add_two(x), 4)
int_add_two(x) ==
    IF x.t = "int" THEN Writer(PyInt(x.v + 2), PyInt(4)) ELSE TypeError

\* test_writer.py: dict_add_two = lambda x: Writer(add_two(x), {'added': 2})
dict_add_two(x) ==
    IF x.t = "int"
    THEN Writer(PyInt(x.v + 2), PyDict(<<<<PyStr(<<"added">>), PyInt(2)>>>>))
    ELSE TypeError

\* test_maybe.py: n_add_two = lambda x: Nothing
n_add_two(x) == Nothing

\* test_either.py: m_add_two = lambda x: Right(add_two(x))
either_m_add_two(x) ==
    AndThen(add_two(x), Right)

\* test_either.py: l_add_two = lambda x: Left("failed")
l_add_two(x) == Left(PyStr(<<"f", "a", "i", "l", "e", "d">>))

\* test_list.py: minus_or_plus_two = lambda x: [x-2, x+2]
minus_or_plus_two(x) ==
    IF x.t = "int" THEN PyList(<<PyInt(x.v - 2), PyInt(x.v + 2)>>)
    ELSE TypeError

\* test_state.py: V = State(lambda s: (s+1, s-1))
V(s) ==
    IF s.t = "int" THEN PyTuple(<<PyInt(s.v + 1), PyInt(s.v - 1)>>)
    ELSE TypeError

\* isinstance(e, expect) for a raised exception e: every exception is an
\* Exception; TypeError, ValueError, AttributeError and KeyError are not
\* subclasses of one another
isinstance_exc(e, expect) == expect.v = "Exception" \/ expect.v = e.t

\* except expect as e: return Left(e); any other exception is not caught
except(e, expect) == IF isinstance_exc(e, expect) THEN Left(e) ELSE e

\* the value func returned, or what becomes of the exception it raised
try(r, expect) == IF ~IsError(r) THEN Right(r) ELSE except(r, expect)

\* a tryer that catches every exception, whatever expect is
tryer_catch_all(func, expect, x) == try(Call(func, x), Cls("Exception"))

\* either.py: tryer, the closure as_wrapper returns:
\* try: return Right(func(*args)) / except expect as e: return Left(e)
tryer(func, expect, x) ==
    try(Call(func, x), expect)

\* Either.as_wrapper(func, expect=Exception)
Either_as_wrapper(func, expect) == PyFn("tryer", <<func, expect>>)

\* Left.or_call(func, a) = Either.as_wrapper(func)(a)
Left_or_call(func, a) == Call(Either_as_wrapper(func, Cls("Exception")), a)

\* test_state.py: F = State(lambda s: (lambda x: x+1, s))
F_lambda(s) == PyTuple(<<PyFn("inc", <<>>), s>>)

\* test_state.py: pop = State(lambda s: (s[0], s[1:]))
pop(s) ==
    IF s.t \notin {"list", "tuple"} THEN TypeError
    ELSE IF s.v = <<>> THEN IndexError
    ELSE PyTuple(<<s.v[1], [t |-> s.t, v |-> Tail(s.v)]>>)

\* test_state.py: push = lambda a: State(lambda s: ((), mappend([a], s)))
push(a) == State(PyFn("push.lambda", <<a>>))

\* the lambda s: ((), mappend([a], s)) of push
push_lambda(a, s) ==
    AndThen(mappend(PyList(<<a>>), s), LAMBDA r :
        PyTuple(<<PyTuple(<<>>), r>>))

\* lambda x: f(x) >> g, the continuation of the associativity law
kleisli(f, g, x) == rshift(Call(f, x), g)

(***************************************************************************)
(* do/doer.py, do/utils.py: the do-blocks and the chain of binds a         *)
(* do-block is sugar for.                                                  *)
(***************************************************************************)
\* monad.bind(f) of every Monad of the library
bind(monad, f) ==
    CASE monad.t = "Just" -> Just_bind(monad, f)
      [] monad.t \in {"Nothing", "Left"} -> propagate_self(monad)
      [] monad.t = "Right" -> Right_bind(monad, f)
      [] monad.t = "Identity" -> Call(f, monad.v)
      [] monad.t = "List" -> List_bind(monad, f)
      [] monad.t = "Writer" -> Writer_bind(monad, f)
      [] monad.t = "Reader" -> Reader_bind(monad, f)
      [] monad.t = "State" -> State_bind(monad, f)
      [] OTHER -> AttributeError

\* self._monad.unit(v) for the class given to @do(monad=...)
monad_unit(monad, v) ==
    CASE monad = "Maybe" -> Maybe_unit(v)
      [] monad = "Either" -> Either_unit(v)
      [] monad = "Identity" -> Identity_unit(v)
      [] monad = "List" -> List_unit(v)
      [] monad = "Writer" -> Writer_unit(v)
      [] monad = "Reader" -> Reader_unit(v)
      [] monad = "State" -> State_unit(v)

\* A do-block decorated with @do(monad=monad):
\*     a = yield first
\*     a = yield conts[1](a)
\*     ...
\*     mreturn(a)          or          mfinished(fin(a))
DoBlock(monad, first, conts, final, fin) ==
    [monad |-> monad, first |-> first, conts |-> conts, final |-> final,
     fin |-> fin]

\* what leaves the coroutine: the value r of the expression under kind, or
\* the exception its evaluation raised
Leaves(kind, r) ==
    IF IsError(r) THEN [kind |-> "raise", v |-> r] ELSE [kind |-> kind, v |-> r]

\* the coroutine of block, suspended at its k-th yield (k = 0: not
\* started), is resumed with val: it yields the next monad, or raises
\* MonadReturn(val) (utils.py mreturn) or MonadFinished(fin(val)) (mfinished)
gen_resume(block, k, val) ==
    IF k = 0 THEN Leaves("yield", block.first)
    ELSE IF k <= Len(block.conts)
    THEN Leaves("yield", Call(block.conts[k], val))
    ELSE IF block.final = "mreturn" THEN Leaves("MonadReturn", val)
    ELSE Leaves("MonadFinished", Call(block.fin, val))

\* the lambda after the k-th monad of the desugared chain of the docstring
\* of do: lambda a: conts[k](a) >> (lambda a: ...), the last one
\* lambda a: monad.unit(a) or lambda a: fin(a)
desugared_lambda(block, k, a) ==
    IF k <= Len(block.conts)
    THEN AndThen(Call(block.conts[k], a), LAMBDA m :
             bind(m, PyFn("do.desugared", <<block, k + 1>>)))
    ELSE IF block.final = "mreturn" THEN monad_unit(block.monad, a)
    ELSE Call(block.fin, a)

\* first >> (lambda a: conts[1](a) >> (lambda a: ...))
desugared(block) == bind(block.first, PyFn("do.desugared", <<block, 1>>))

\* partial(self._send, gen=gen), the function the driver binds to every
\* monad the coroutine yields
do_send == PyFn("do._send", <<>>)

\* f(x): an exception raised while evaluating the argument propagates, a
\* value that is not callable raises TypeError
Call(f, x) ==
    IF IsError(x) THEN x
    ELSE IF f.t \in {"Reader", "State"} THEN Call(f.v, x)
    ELSE IF f.t # "function" THEN TypeError
    ELSE IF f.v.name = "tryer" THEN tryer(f.v.env[1], f.v.env[2], x)
    ELSE IF f.v.name = "state_applier"
    THEN state_applier(x, f.v.env[1], f.v.env[2])
    ELSE IF f.v.name = "state_binder"
    THEN state_binder(x, f.v.env[1], f.v.env[2])
    ELSE IF f.v.name = "applied" THEN applied(x, f.v.env[1], f.v.env[2])
    ELSE IF f.v.name = "bound" THEN bound(x, f.v.env[1], f.v.env[2])
    ELSE CASE f.v.name = "identity" -> x
           [] f.v.name = "composed" -> composed(f.v.env, x)
           [] f.v.name = "add_two" -> add_two(x)
           [] f.v.name = "plus_other" -> plus_other(x)
           [] f.v.name = "plus_other.lambda" -> plus_other_lambda(f.v.env[1], x)
           [] f.v.name = "h" -> h(x)
           [] f.v.name = "inc" -> inc(x)
           [] f.v.name = "mul100" -> mul100(x)
           [] f.v.name = "reader.add_two" -> reader_add_two(x)
           [] f.v.name = "adder" -> adder(f.v.env[1], x)
           [] f.v.name = "madd" -> madd(x)
           [] f.v.name = "constant" -> f.v.env[1]
           [] f.v.name = "Reader.unit" -> Reader_unit(x)
           [] f.v.name = "c" -> c(x)
           [] f.v.name = "even" -> even(x)
           [] f.v.name = "raise_if_odd" -> raise_if_odd(x)
           [] f.v.name = "Maybe.checker" -> PyBool(x.t # "NoneType")
           [] f.v.name = "maybe.m_add_two" -> maybe_m_add_two(x)
           [] f.v.name = "n_add_two" -> n_add_two(x)
           [] f.v.name = "Maybe.unit" -> Maybe_unit(x)
           [] f.v.name = "either.m_add_two" -> either_m_add_two(x)
           [] f.v.name = "l_add_two" -> l_add_two(x)
           [] f.v.name = "Either.unit" -> Either_unit(x)
           [] f.v.name = "minus_or_plus_two" -> minus_or_plus_two(x)
           [] f.v.name = "List.unit" -> List_unit(x)
           [] f.v.name = "V" -> V(x)
           [] f.v.name = "F" -> F_lambda(x)
           [] f.v.name = "pop" -> pop(x)
           [] f.v.name = "push" -> push(x)
           [] f.v.name = "push.lambda" -> push_lambda(f.v.env[1], x)
           [] f.v.name = "pops.lambda" -> State(PyFn("pop", <<>>))
           [] f.v.name = "State.unit" -> State_unit(x)
           [] f.v.name = "writer.m_add_two" -> writer_m_add_two(x)
           [] f.v.name = "str_add_two" -> str_add_two(x)
           [] f.v.name = "int_add_two" -> int_add_two(x)
           [] f.v.name = "dict_add_two" -> dict_add_two(x)
           [] f.v.name = "Writer.unit" -> Writer_unit(x)
           [] f.v.name = "State.unit.lambda" -> PyTuple(<<f.v.env[1], x>>)
           [] f.v.name = "state_mapper" ->
                  state_mapper(x, f.v.env[1], f.v.env[2])
           [] f.v.name = "kleisli" -> kleisli(f.v.env[1], f.v.env[2], x)
           [] f.v.name = "do.desugared" ->
                  desugared_lambda(f.v.env[1], f.v.env[2], x)
           [] f.v.name = "Identity.unit" -> Identity_unit(x)
           [] f.v.name = "mcons.outer" ->
                  mcons_outer(f.v.env[1], f.v.env[2], x)
           [] f.v.name = "mcons.inner" ->
                  mcons_inner(f.v.env[1], f.v.env[2], x)


(***************************************************************************)
(* The values the operations are called with.                              *)
(***************************************************************************)
Ints == {PyInt(n) : n \in 0..MaxInt}

Fn(name) == PyFn(name, <<>>)
Fns == {identity, Fn("add_two"), Fn("h")}
MaybeConts == {Fn("maybe.m_add_two"), Fn("n_add_two"), Fn("Maybe.unit")}
EitherConts == {Fn("either.m_add_two"), Fn("l_add_two"), Fn("Either.unit")}
ListConts == {Fn("minus_or_plus_two"), Fn("List.unit")}

KeyA == PyStr(<<"a">>)
KeyB == PyStr(<<"b">>)
StrAB == PyStr(<<"a", "b">>)

Maybes == {Nothing} \cup {Just(i) : i \in Ints}
Eithers == {Left(StrAB)} \cup {Right(i) : i \in Ints}
Identities == {Identity(i) : i \in Ints}
Lists == {List(es) : es \in SeqUpTo(Ints, MaxLen)}
FnLists == {List(fs) : fs \in SeqUpTo(Fns, MaxLen)}

\* the items of the dicts over the keys 'a' and 'b', in both orders
Items ==
    {<<>>}
    \cup {<<<<k, i>>>> : k \in {KeyA, KeyB}, i \in Ints}
    \cup {<<<<KeyA, i>>, <<KeyB, j>>>> : i \in Ints, j \in Ints}
    \cup {<<<<KeyB, i>>, <<KeyA, j>>>> : i \in Ints, j \in Ints}
Dicts == {PyDict(kvs) : kvs \in Items}
Maps == {Map(d) : d \in Dicts}

\* Maps of functions over the keys 'a' and 'b'
FnItems ==
    {<<>>}
    \cup {<<<<k, f>>>> : k \in {KeyA, KeyB}, f \in {Fn("add_two"), Fn("plus_other")}}
    \cup {<<<<KeyA, f>>, <<KeyB, g>>>> :
             f \in {Fn("add_two"), Fn("plus_other")},
             g \in {Fn("add_two"), Fn("plus_other")}}
FnMaps == {Map(PyDict(kvs)) : kvs \in FnItems}

\* the later operands of Map.mconcat: Maps that collide on 'a' and on 'b'
MapOperands ==
    {Map(PyDict(<<<<KeyA, PyInt(0)>>>>)),
     Map(PyDict(<<<<KeyB, PyInt(1)>>>>)),
     Map(PyDict(<<<<KeyB, PyInt(2)>>, <<KeyA, PyInt(1)>>>>))}

Logs ==
    {Mempty, PyNone, PyInt(1), PyList(<<StrAB>>), List(<<StrAB>>),
     PyStr(<<>>), PyDict(<<>>)}
Writers == {Writer(i, l) : i \in Ints, l \in Logs}

\* Writers that hold a function, the left operands of apply
FnWriters == {Writer(f, l) : f \in Fns, l \in Logs}

\* the continuations bound to a Writer; add_two returns a bare number
WriterConts ==
    {Fn("writer.m_add_two"), Fn("str_add_two"), Fn("int_add_two"),
     Fn("dict_add_two"), Fn("Writer.unit"), Fn("add_two")}

States ==
    {State(Fn("V")), State(Fn("F")), State(Fn("pop")), push(PyInt(1))}
    \cup {State_unit(i) : i \in Ints}

\* the states a State is run on: numbers and stacks
StateInputs ==
    Ints \cup {PyList(<<>>), PyList(<<PyInt(2)>>),
               PyList(<<PyInt(2), PyInt(0)>>)}

\* the continuations bound to a State
StateConts == {Fn("push"), Fn("pops.lambda"), Fn("State.unit")}

\* scalars, strings, builtin collections and a List, for List.unit
UnitVals ==
    Ints \cup {PyNone, StrAB, PyStr(<<>>), PyList(<<>>),
               PyList(<<PyInt(1), PyInt(2)>>), PyTuple(<<PyInt(1)>>),
               PyDict(<<<<KeyA, PyInt(1)>>>>), List(<<PyInt(1)>>)}

\* a List of key/value pairs and Lists dict.update cannot read
PairLists ==
    {List(<<PyTuple(<<KeyA, i>>)>>) : i \in Ints}
    \cup {List(<<PyTuple(<<KeyA, PyInt(0)>>), PyTuple(<<KeyB, PyInt(1)>>)>>),
          List(<<PyTuple(<<KeyA, PyInt(0), PyInt(1)>>)>>)}

\* the operands of mappend: Lists, Maps, Mempty, numbers and the builtin
\* collections (List.mempty is among them: it is the empty tuple)
Monoids ==
    Lists \cup Maps \cup PairLists \cup Ints
    \cup {Mempty, List_mempty, StrAB, PyStr(<<>>), PyList(<<>>),
          PyList(<<PyInt(1)>>), PyTuple(<<PyInt(1)>>),
          PyDict(<<>>), PyDict(<<<<KeyA, PyInt(1)>>>>)}

\* operands of List.mconcat after the first
Operands ==
    {List(<<>>), List(<<PyInt(1)>>), List(<<PyInt(0), PyInt(2)>>),
     PyList(<<PyInt(1)>>), PyTuple(<<PyInt(2)>>), StrAB,
     PyDict(<<<<KeyA, PyInt(1)>>>>), Mempty}

\* what is appended to the result of an earlier call
LaterOperands == Operands \cup MapOperands \cup {PyInt(1)}

\* operands of the default mconcat: numbers for Product, Test instances
\* for Test, Lists of at most one element for List
ClsOperands(cls) ==
    CASE cls = "Product" -> {PyInt(n) : n \in 1..(MaxInt + 1)}
      [] cls = "Test" -> {Test(n) : n \in 0..MaxInt}
      [] cls = "List" -> {List(es) : es \in SeqUpTo(Ints, 1)}

(***************************************************************************)
(* A behaviour is one chain of calls: the first call takes its receiver    *)
(* from the inputs, each later call takes the previous result as its       *)
(* receiver, while that result has at most MaxLen elements; a chain has at *)
(* most MaxDepth calls.  The other operands always come from the inputs.   *)
(***************************************************************************)
Size(x) == IF x.t \in SeqTypes \cup MapTypes \cup {"str"} THEN Len(x.v) ELSE 0

Recv(inputs, types) ==
    IF op = "init" THEN inputs
    ELSE IF /\ depth < MaxDepth
            /\ out.t \in types
            /\ Size(out) <= MaxLen
            /\ out.t = "int" => out.v <= MaxVal
    THEN {out} ELSE {}

\* the record of a call
Record(name, as, result) ==
    /\ op' = name
    /\ args' = as
    /\ out' = result
    /\ depth' = depth + 1
    /\ UNCHANGED <<inst, created, threads, coro, descr, heap>>

\* the singleton classes and the threads that call them
Singletons == {"_Nothing", "_Empty"}
Threads == 1..NThreads

\* no module is imported yet; a class attribute _inst that is None is 0
ThreadsInit ==
    [pc |-> [t \in Threads |-> "idle"],
     cls |-> [t \in Threads |-> "_Nothing"],
     obj |-> [t \in Threads |-> 0],
     calls |-> [t \in Threads |-> 0],
     importing |-> [t \in Threads |-> FALSE],
     imported |-> [k \in Singletons |-> "no"],
     inst |-> [k \in Singletons |-> 0],
     created |-> [k \in Singletons |-> 0],
     global |-> [k \in Singletons |-> 0],
     returned |-> [k \in Singletons |-> {}]]

\* the objects that exist once the library is imported: the [], {} and set()
\* of _generic_mempties and the () of List.mempty; Map._mempty is None
SharedObjects ==
    <<PyList(<<>>), PyDict(<<>>), PySet({}), PyTuple(<<>>)>>

HeapInit ==
    [cells |-> SharedObjects, orig |-> SharedObjects, Map_mempty |-> 0,
     ret |-> 0, last |-> "import", joined |-> {}]

\* method_optional_kwargs.__init__: self._deco = None, for the descriptor
\* of Maybe and the one of Option; no decorator is obtained yet
DescrInit ==
    [deco |-> [owner \in {"Maybe", "Option"} |-> "None"],
     via |-> "None", bound |-> "None", called |-> FALSE,
     func |-> PyNone, a |-> PyNone, result |-> PyNone]

\* no function decorated with do is called yet
CoroInit ==
    [block |-> DoBlock("Maybe", Nothing, <<>>, "mreturn", identity),
     pc |-> 0, status |-> "none", mode |-> "idle", val |-> PyNone,
     stack |-> <<>>, sent |-> <<>>, yielded |-> <<>>, phase |-> "call",
     result |-> PyNone, runs |-> 0, on |-> PyNone, ran |-> <<>>]

Init ==
    /\ op = "init"
    /\ args = <<>>
    /\ out = PyNone
    /\ depth = 0
    \* maybe.py:254 ran at import: Nothing = _Nothing()
    /\ inst = 1
    /\ created = 1
    /\ threads = ThreadsInit
    /\ coro = CoroInit
    /\ descr = DescrInit
    /\ heap = HeapInit

FunctorTypes ==
    {"Just", "Nothing", "Left", "Right", "Identity", "List", "Map", "Writer",
     "State"}
Functors ==
    Maybes \cup Eithers \cup Identities \cup Lists \cup Maps \cup Writers
    \cup States

\* cls.unit(v)
Unit ==
    \/ \E v \in Recv(Ints, {"int"}) :
          \/ Record("Maybe.unit", <<v>>, Maybe_unit(v))
          \/ Record("Either.unit", <<v>>, Either_unit(v))
          \/ Record("Identity.unit", <<v>>, Identity_unit(v))
          \/ Record("Writer.unit", <<v>>, Writer_unit(v))
          \/ Record("State.unit", <<v>>, State_unit(v))
    \/ \E v \in Recv(UnitVals, {"int", "list", "tuple", "List", "dict"}) :
          Record("List.unit", <<v>>, List_unit(v))

\* functor.fmap(f)
Fmap ==
    \E F \in Recv(Functors, FunctorTypes), f \in Fns :
        Record("fmap", <<F, f>>, fmap(f, F))

\* the continuations of the family of m
Conts(m) ==
    CASE m.t \in {"Just", "Nothing"} -> MaybeConts
      [] m.t \in {"Left", "Right"} -> EitherConts
      [] m.t = "List" -> ListConts

\* functions that return a raw value or a monad of another family
ForeignConts(m) ==
    CASE m.t \in {"Just", "Nothing"} -> {Fn("add_two"), Fn("either.m_add_two")}
      [] m.t \in {"Left", "Right"} -> {Fn("add_two"), Fn("maybe.m_add_two")}
      [] m.t = "List" -> {}

\* monad.bind(f), monad >> f
Bind ==
    \E m \in Recv(Maybes \cup Eithers \cup Lists,
                  {"Just", "Nothing", "Left", "Right", "List"}) :
        \E f \in Conts(m) \cup ForeignConts(m) :
            Record("bind", <<m, f>>, rshift(m, f))

\* writer.bind(func), writer >> func
WriterBind ==
    \E w \in Recv(Writers, {"Writer"}), func \in WriterConts :
        Record("Writer.bind", <<w, func>>, Writer_bind(w, func))

\* writer.apply(applicative), writer * applicative
WriterApply ==
    \E w \in Recv(FnWriters, {"Writer"}), applicative \in Writers :
        Record("Writer.apply", <<w, applicative>>,
               Writer_apply(w, applicative))

\* the values the generic inference is asked about: of the builtin types
\* of the look-up table, of types that only match structurally and of
\* types that match nothing
GenericValues ==
    {PyBool(TRUE), PyBool(FALSE), PyInt(1), PyFloat(1), PyComplex(1, 1),
     Decimal(1), StrAB, PyList(<<PyInt(1)>>), PyTuple(<<PyInt(1)>>),
     List(<<PyInt(1)>>), PyDict(<<<<KeyA, PyInt(1)>>>>),
     Map(PyDict(<<<<KeyB, PyInt(2)>>>>)), PySet({PyInt(1)}),
     PyFrozenset({PyInt(2)}), KeysView({KeyA}), WeakSet, PyObject}

\* a look-up table without the entry of key
Without(table, key) == [k \in DOMAIN table \ {key} |-> table[k]]
NoTable == [k \in {} |-> PyNone]

\* the keyword arguments of a call: the default tables, or tables of the
\* caller with an entry less
KwargsPool ==
    {Kwargs(generic_types, known_to_generics, known_mempties,
            known_mappends, known_mconcats) :
        known_to_generics \in {builtin_to_generic, NoTable},
        known_mempties \in {generic_mempties}
            \cup {Without(generic_mempties, g) : g \in DOMAIN generic_mempties},
        known_mappends \in {generic_mappends,
                            Without(generic_mappends, "Set")},
        known_mconcats \in {generic_mconcats, NoTable}}

\* _get_generic_type(obj, **kwargs)
GetGenericType ==
    /\ op = "init"
    /\ \E obj \in GenericValues, kwargs \in KwargsPool :
          Record("_get_generic_type", <<obj, kwargs>>,
                 [t |-> "type",
                  v |-> get_generic_type_in(obj, kwargs.v.generics,
                                            kwargs.v.known_to_generics)])

\* get_generic_mempty(obj, **kwargs)
GetGenericMempty ==
    /\ op = "init"
    /\ \E obj \in GenericValues, kwargs \in KwargsPool :
          Record("get_generic_mempty", <<obj, kwargs>>,
                 get_generic_mempty_in(obj, kwargs.v.known_mempties,
                                       kwargs.v.generics,
                                       kwargs.v.known_to_generics))

\* get_generic_mappend(obj, **kwargs)(obj, other)
GetGenericMappend ==
    /\ op = "init"
    /\ \E obj \in GenericValues, other \in GenericValues \cup {Mempty},
          kwargs \in KwargsPool :
          Record("get_generic_mappend", <<obj, other, kwargs>>,
                 AndThen(get_generic_mappend_in(obj, kwargs.v.generics,
                                                kwargs.v.known_to_generics,
                                                kwargs.v.known_mappends),
                         LAMBDA f : apply_mappend(f, obj, other)))

\* funcs.mconcat(*monoids, **kwargs) of values of one type
Mconcat ==
    /\ op = "init"
    /\ \E obj \in GenericValues, n \in 1..MaxLen, kwargs \in KwargsPool :
          Record("mconcat", <<[i \in 1..n |-> obj], kwargs>>,
                 mconcat([i \in 1..n |-> obj], kwargs))

\* values of one kind each: numbers, booleans, strings, lists, dicts, sets,
\* Lists and Maps
MonoidKinds ==
    {{PyInt(1), PyFloat(1)}, {PyBool(TRUE), PyBool(FALSE)},
     {StrAB, PyStr(<<>>)},
     {PyList(<<PyInt(1)>>), PyList(<<>>)},
     {PyDict(<<<<KeyA, PyInt(1)>>>>), PyDict(<<<<KeyB, PyInt(2)>>>>)},
     {PySet({PyInt(1)}), PySet({PyInt(2)})},
     {List(<<PyInt(1)>>), List(<<PyInt(2)>>)},
     {Map(PyDict(<<<<KeyA, PyInt(1)>>>>)), Map(PyDict(<<<<KeyB, PyInt(2)>>>>))}}

\* mconcat(*monoids) and Mempty.mconcat(*monoids) of up to MaxLen + 1 values
\* of one kind and Mempty, in any order
MconcatPlaceholders ==
    /\ op = "init"
    /\ \E kind \in MonoidKinds :
          \E monoids \in SeqUpTo(kind \cup {Mempty}, MaxLen + 1) \ {<<>>} :
             \/ Record("mconcat", <<monoids, DefaultKwargs>>,
                       mconcat(monoids, DefaultKwargs))
             \/ Record("Mempty.mconcat", <<monoids, DefaultKwargs>>,
                       Mempty_mconcat(monoids, DefaultKwargs))

\* the monads sequence is called with: Maybes, or Eithers with two
\* different Left
SequenceOperands(kind) ==
    IF kind = "Maybe" THEN Maybes
    ELSE {Left(StrAB), Left(KeyA)} \cup {Right(i) : i \in Ints}

\* sequence(*monads)
Sequence ==
    /\ op = "init"
    /\ \E kind \in {"Maybe", "Either"} :
          \E monads \in SeqUpTo(SequenceOperands(kind), MaxLen + 1) :
              Record("sequence", monads, sequence(monads))

\* mapM(func, *xs)
MapM ==
    /\ op = "init"
    /\ \E func \in MaybeConts \cup EitherConts \cup {Fn("even"), Fn("raise_if_odd")},
          xs \in SeqUpTo(Ints, MaxLen + 1) :
          Record("mapM", <<func>> \o xs, mapM(func, xs))

\* multibind(monad, *binds)
Multibind ==
    \E m \in Recv(Lists, {"List"}), binds \in SeqUpTo(ListConts, 2) :
        Record("multibind", <<m>> \o binds, multibind(m, binds))

\* List.apply: fs * xs
Apply ==
    \E fs \in FnLists, xs \in Recv(Lists, {"List"}) :
        Record("apply", <<fs, xs>>, List_apply(fs, xs))

\* Map.apply: m * n
MapApply ==
    \E m \in Recv(FnMaps, {"Map"}), n \in Maps :
        Record("Map.apply", <<m, n>>, Map_apply(m, n))

\* Map.mconcat(*ds)
MapMconcat ==
    \E d \in Recv(Maps, {"Map"}), ds \in SeqUpTo(MapOperands, MaxLen) :
        Record("Map.mconcat", <<d>> \o ds, Map_mconcat(<<d>> \o ds))

\* Maybe(v), Maybe(v, checker)
MaybeNew ==
    \E v \in Recv(Ints \cup {PyNone}, {"int", "NoneType"}),
       checker \in {is_not_None, Fn("c")} :
        \E r \in Maybe_new(v, checker) : Record("Maybe", <<v, checker>>, r)

\* _Nothing(): the class attribute and the count of instances change, the
\* instance returned is the one _inst refers to
NothingNew ==
    /\ depth < MaxDepth
    /\ LET r == Nothing_new(inst, created) IN
           /\ inst' = r.inst
           /\ created' = r.created
    /\ op' = "_Nothing"
    /\ args' = <<>>
    /\ out' = Nothing
    /\ depth' = depth + 1
    /\ UNCHANGED <<threads, coro, descr, heap>>

\* maybe.filter(predicate)
Filter ==
    \E m \in Recv(Maybes, {"Just", "Nothing"}), p \in {Fn("c"), Fn("even")} :
        Record("filter", <<m, p>>, filter(m, p))

\* the alternatives handed to the recovery methods
Defaults == Ints \cup {PyNone, Nothing}
Recoverers == {Fn("add_two"), Fn("raise_if_odd")}

\* maybe.get_or(d), maybe.get_or_call(fn, a), maybe.or_else(d) and
\* maybe.or_call(fn, a)
Recover ==
    \E m \in Recv(Maybes, {"Just", "Nothing"}) :
        \/ \E d \in Defaults :
              \/ Record("get_or", <<m, d>>, get_or(m, d))
              \/ \E r \in or_else(m, d) : Record("or_else", <<m, d>>, r)
        \/ \E fn \in Recoverers, a \in Ints :
              \/ Record("get_or_call", <<m, fn, a>>, get_or_call(m, fn, a))
              \/ \E r \in or_call(m, fn, a) :
                    Record("or_call", <<m, fn, a>>, r)

\* the operands of apply: a function in a Just or a Right, and the failures
Applicatives == {Just(Fn("add_two")), Nothing, Right(Fn("add_two")), Left(StrAB)}

\* applicative.apply(other), applicative * other on a Maybe or an Either
OptionApply ==
    \E F \in Recv(Applicatives, {"Just", "Nothing", "Left", "Right"}),
       other \in Maybes \cup Eithers :
        Record("Applicative.apply", <<F, other>>, Applicative_mul(F, other))

\* the failure kinds given as expect
Expected == {Cls("Exception"), Cls("TypeError"), Cls("KeyError")}

\* Either.as_wrapper(func, expect=K)(a) and Left.or_call(func, a)
AsWrapper ==
    \E func \in Recoverers, a \in Recv(Ints \cup {PyNone}, {"int", "NoneType"}) :
        \/ \E expect \in Expected :
              Record("as_wrapper", <<func, expect, a>>,
                     Call(Either_as_wrapper(func, expect), a))
        \/ Record("Left.or_call", <<Left(StrAB), func, a>>,
                  Left_or_call(func, a))

\* Readers: R(inc), R(raise_if_odd) and add_two & R
Readers ==
    {Reader(Fn("inc")), Reader(Fn("raise_if_odd")),
     Reader_unit(Fn("reader.add_two"))}

\* Reader.unit(v), r * s, r >> g and r(env)
ReaderOps ==
    \/ \E v \in Recv(Ints \cup {Fn("reader.add_two")}, {"int", "function"}) :
          Record("Reader.unit", <<v>>, Reader_unit(v))
    \/ \E r \in Recv(Readers, {"Reader"}) :
          \/ \E s \in {Reader(Fn("inc")), Reader(Fn("mul100")),
                        Reader(Fn("raise_if_odd"))} :
                Record("Reader.apply", <<r, s>>, Reader_apply(r, s))
          \/ \E g \in {Fn("madd"), Fn("Reader.unit")} :
                Record("Reader.bind", <<r, g>>, Reader_bind(r, g))
          \/ \E env \in Ints :
                Record("Reader.call", <<r, env>>, Reader_call(r, env))

\* funcs.mempty(monoid)
MemptyOf ==
    \E x \in Recv(Monoids, {"List", "Map", "list", "dict", "tuple", "int"}) :
        Record("mempty", <<x>>, mempty(x))

\* funcs.mappend(existing, other), existing.mappend(other)
Mappend ==
    \E a \in Recv(Monoids, {"List", "Map", "list", "dict", "tuple", "int"}),
       b \in IF op = "init" THEN Monoids ELSE LaterOperands :
        Record("mappend", <<a, b>>, mappend(a, b))

\* Product.mconcat(*monoids), Test.mconcat(*monoids) and
\* super(List, List).mconcat(*monoids): the default of abc/monoid.py
MonoidMconcat ==
    /\ op = "init"
    /\ \E cls \in {"Product", "Test", "List"} :
        \E monoids \in SeqUpTo(ClsOperands(cls), MaxLen + 1) :
            Record("Monoid.mconcat", <<Cls(cls)>> \o monoids,
                   Monoid_mconcat(cls, monoids))

\* List.mconcat(*monoids)
ListMconcat ==
    \/ /\ op = "init"
       /\ Record("List.mconcat", <<>>, List_mconcat(<<>>))
    \/ \E x \in Recv(Lists, {"List"}), rest \in SeqUpTo(Operands, MaxLen - 1) :
          Record("List.mconcat", <<x>> \o rest, List_mconcat(<<x>> \o rest))

\* state(s): run a State on an initial state
StateCall ==
    \E st \in Recv(States, {"State"}), s \in StateInputs :
        Record("State.call", <<st, s>>, State_call(st, s))

\* F * V and st >> g on a State
StateOps ==
    \E st \in Recv(States, {"State"}) :
        \/ \E V1 \in {State(Fn("V")), State(Fn("pop")), State_unit(PyInt(1))} :
              Record("State.apply", <<st, V1>>, State_apply(st, V1))
        \/ \E g \in StateConts :
              Record("State.bind", <<st, g>>, State_bind(st, g))

Next ==
    \/ Unit
    \/ Fmap
    \/ Bind
    \/ Multibind
    \/ Apply
    \/ MapApply
    \/ MapMconcat
    \/ MaybeNew
    \/ NothingNew
    \/ Filter
    \/ Recover
    \/ OptionApply
    \/ AsWrapper
    \/ ReaderOps
    \/ MemptyOf
    \/ Mappend
    \/ MonoidMconcat
    \/ ListMconcat
    \/ StateCall
    \/ StateOps
    \/ WriterBind
    \/ WriterApply
    \/ GetGenericType
    \/ GetGenericMempty
    \/ GetGenericMappend
    \/ Mconcat
    \/ MconcatPlaceholders
    \/ Sequence
    \/ MapM

Spec == Init /\ [][Next]_vars

(***************************************************************************)
(* The singletons under threads.  A step of a thread is one read or write  *)
(* of the class attribute _inst, which the interpreter does atomically.    *)
(***************************************************************************)
\* a step of the threads leaves the chain of calls alone
Step(next) ==
    /\ threads' = next
    /\ UNCHANGED <<op, args, out, depth, inst, created, coro, descr, heap>>

\* a class that any thread may call although its module is not imported
ModuleImported_unlocked(k) == TRUE

\* a thread has the class k once the import of its module is complete: the
\* thread that imports holds the lock of the module until then
ModuleImported(k) == threads.imported[k] = "yes"

\* maybe.py:254 Nothing = _Nothing(), option.py:162 Empty = _Empty(): the
\* first thread to import the module runs the statement
Import(t, k) ==
    /\ threads.pc[t] = "idle"
    /\ threads.imported[k] = "no"
    /\ Step([threads EXCEPT !.imported[k] = "importing",
                            !.importing[t] = TRUE,
                            !.cls[t] = k,
                            !.pc[t] = "check"])

\* _Nothing(), _Empty(): a call of __new__
Construct(t, k) ==
    /\ threads.pc[t] = "idle"
    /\ ModuleImported(k)
    /\ threads.calls[t] < MaxCalls
    /\ Step([threads EXCEPT !.calls[t] = @ + 1,
                            !.cls[t] = k,
                            !.pc[t] = "check"])

\* if cls._inst is None:
CheckInst(t) ==
    /\ threads.pc[t] = "check"
    /\ Step([threads EXCEPT !.pc[t] =
                 IF threads.inst[threads.cls[t]] = 0 THEN "create"
                 ELSE "return"])

\* Container.__new__(cls)
CreateInst(t) ==
    /\ threads.pc[t] = "create"
    /\ Step([threads EXCEPT !.created[threads.cls[t]] = @ + 1,
                            !.obj[t] = threads.created[threads.cls[t]] + 1,
                            !.pc[t] = "assign"])

\* cls._inst = ...
AssignInst(t) ==
    /\ threads.pc[t] = "assign"
    /\ Step([threads EXCEPT !.inst[threads.cls[t]] = threads.obj[t],
                            !.pc[t] = "return"])

\* return cls._inst; the statement of the module binds the name Nothing or
\* Empty to it and the import is complete
ReturnInst(t) ==
    /\ threads.pc[t] = "return"
    /\ LET k == threads.cls[t] IN
       Step([threads EXCEPT
                !.returned[k] = @ \cup {threads.inst[k]},
                !.global[k] = IF threads.importing[t] THEN threads.inst[k]
                              ELSE @,
                !.imported[k] = IF threads.importing[t] THEN "yes" ELSE @,
                !.importing[t] = FALSE,
                !.pc[t] = "idle"])

\* Maybe(v, checker) with a checker that fails: return Nothing
MaybeFails(t) ==
    /\ threads.pc[t] = "idle"
    /\ ModuleImported("_Nothing")
    /\ threads.calls[t] < MaxCalls
    /\ Step([threads EXCEPT
                !.calls[t] = @ + 1,
                !.returned["_Nothing"] = @ \cup {threads.global["_Nothing"]}])

NextThreads ==
    \E t \in Threads :
        \/ \E k \in Singletons : Import(t, k)
        \/ \E k \in Singletons : Construct(t, k)
        \/ CheckInst(t)
        \/ CreateInst(t)
        \/ AssignInst(t)
        \/ ReturnInst(t)
        \/ MaybeFails(t)

SpecThreads == Init /\ [][NextThreads]_vars

(***************************************************************************)
(* The driver of the do-notation, do/doer.py.  A step is one gen.send with *)
(* the except clauses around it, one call of bind on the monad the         *)
(* coroutine yielded, or one return from a call of bind.                   *)
(***************************************************************************)
StepDo(next) ==
    /\ coro' = next
    /\ UNCHANGED <<op, args, out, depth, inst, created, threads, descr, heap>>

\* a call of bind (or of the Reader or State a bind made) that waits for
\* self._send to return
Frame(k, a, b) == [k |-> k, a |-> a, b |-> b]

raise(co, e) == [co EXCEPT !.mode = "raise", !.val = e]

\* the call of the decorated function, or the run of its result, returns v
\* or raises it
finish(co, v) ==
    IF co.phase = "call" THEN [co EXCEPT !.mode = "done", !.result = v]
    ELSE [co EXCEPT !.mode = "done",
                    !.ran = Append(@, <<co.on, v>>)]

\* do._send after gen.send(val): return monad.bind(...) for a yielded monad,
\* self._monad.unit(mr.v) for MonadReturn, mf.v for MonadFinished; another
\* exception is not caught
after_gen_send(co, r) ==
    CASE r.kind = "yield" ->
            [co EXCEPT !.pc = @ + 1, !.status = "suspended",
                       !.yielded = Append(@, r.v),
                       !.mode = "bind", !.val = r.v]
      [] r.kind = "MonadReturn" ->
            [co EXCEPT !.status = "finished", !.mode = "ret",
                       !.val = monad_unit(co.block.monad, r.v)]
      [] r.kind = "MonadFinished" ->
            [co EXCEPT !.status = "finished", !.mode = "ret", !.val = r.v]
      [] r.kind = "raise" ->
            [co EXCEPT !.status = "finished", !.mode = "raise", !.val = r.v]

\* gen.send(val): a finished generator raises StopIteration
gen_send(co) ==
    IF co.status = "finished"
    THEN raise([co EXCEPT !.sent = Append(@, co.val)], StopIteration)
    ELSE after_gen_send([co EXCEPT !.sent = Append(@, co.val)],
                        gen_resume(co.block, co.pc, co.val))

\* a bind of Nothing and Left that calls the function as well
monad_bind_resuming_failures(co) ==
    CASE co.val.t \in {"Just", "Right", "Identity"} ->
            [co EXCEPT !.mode = "send", !.val = co.val.v]
      [] co.val.t \in {"Nothing", "Left"} ->
            [co EXCEPT !.mode = "send", !.val = PyNone]
      [] co.val.t = "Writer" ->
            [co EXCEPT !.stack = <<Frame("Writer", co.val.v[2], <<>>)>> \o @,
                       !.mode = "send", !.val = co.val.v[1]]
      [] co.val.t = "List" ->
            IF co.val.v = <<>>
            THEN [co EXCEPT !.mode = "ret", !.val = List(<<>>)]
            ELSE [co EXCEPT
                     !.stack = <<Frame("List", Tail(co.val.v), <<>>)>> \o @,
                     !.mode = "send", !.val = Head(co.val.v)]
      [] co.val.t = "Reader" ->
            [co EXCEPT !.mode = "ret", !.val = Reader_bind(co.val, do_send)]
      [] co.val.t = "State" ->
            [co EXCEPT !.mode = "ret", !.val = State_bind(co.val, do_send)]
      [] OTHER -> raise(co, AttributeError)

\* monad.bind(partial(self._send, gen=gen)): Just, Right and Identity call
\* the function with their value, Nothing and Left return themselves,
\* Writer and List call it (for every element) and work on what it returns,
\* Reader and State return a closure over it
monad_bind(co) ==
    CASE co.val.t \in {"Just", "Right", "Identity"} ->
            [co EXCEPT !.mode = "send", !.val = co.val.v]
      [] co.val.t \in {"Nothing", "Left"} -> [co EXCEPT !.mode = "ret"]
      [] co.val.t = "Writer" ->
            [co EXCEPT !.stack = <<Frame("Writer", co.val.v[2], <<>>)>> \o @,
                       !.mode = "send", !.val = co.val.v[1]]
      [] co.val.t = "List" ->
            IF co.val.v = <<>>
            THEN [co EXCEPT !.mode = "ret", !.val = List(<<>>)]
            ELSE [co EXCEPT
                     !.stack = <<Frame("List", Tail(co.val.v), <<>>)>> \o @,
                     !.mode = "send", !.val = Head(co.val.v)]
      [] co.val.t = "Reader" ->
            [co EXCEPT !.mode = "ret", !.val = Reader_bind(co.val, do_send)]
      [] co.val.t = "State" ->
            [co EXCEPT !.mode = "ret", !.val = State_bind(co.val, do_send)]
      [] OTHER -> raise(co, AttributeError)

\* Writer.bind after w = func(self.v[0]):
\* return self.__class__(w.v[0], mappend(self.v[1], w.v[1]))
writer_returns(co, log, w) ==
    IF IsError(log) THEN raise(co, log)
    ELSE [co EXCEPT !.stack = Tail(@), !.val = Writer(w.v[1], log)]

\* List.bind after the last element:
\* return self.__class__(*chain.from_iterable(...))
list_returns(co, results) ==
    IF \E i \in 1..Len(results) : ~Iterable(results[i])
    THEN raise(co, TypeError)
    ELSE [co EXCEPT
             !.stack = Tail(@),
             !.val = List(Flatten([i \in 1..Len(results) |->
                                      Iter(results[i])]))]

\* the Reader or State r is one that bind made over self._send
BoundToSend(r) ==
    /\ r.t \in {"Reader", "State"}
    /\ r.v.t = "function"
    /\ r.v.v.name \in {"bound", "state_binder"}
    /\ r.v.v.env[2] = do_send

\* bound(env): a = f(env); r = g(a) and state_binder(state):
\* result, new_state = runner(state); st = maker(result): g and maker are
\* self._send, called with a; upper are the calls that wait for this one
runs_bound(co, r, a, upper) ==
    IF IsError(a) THEN raise(co, a)
    ELSE IF r.t = "Reader"
    THEN [co EXCEPT !.stack = <<Frame("run", co.stack[1].a, <<>>)>> \o upper,
                    !.mode = "send", !.val = a]
    ELSE [co EXCEPT !.stack = <<Frame("run", a.v[2], <<>>)>> \o upper,
                    !.mode = "send", !.val = a.v[1]]

\* return r(env) of bound and return st(new_state) of state_binder: r is
\* called with x
runs(co, r, x) ==
    IF BoundToSend(r)
    THEN runs_bound(co, r, Call(r.v.v.env[1], x), Tail(co.stack))
    ELSE IF IsError(Call(r, x)) THEN raise(co, Call(r, x))
    ELSE [co EXCEPT !.stack = Tail(@), !.val = Call(r, x)]

\* self._send returned v to the call of bind fr
frame_returns(co, fr, v) ==
    CASE fr.k = "Writer" ->
            IF v.t # "Writer" THEN raise(co, AttributeError)
            ELSE writer_returns(co, mappend(fr.a, v.v[2]), v)
      [] fr.k = "List" ->
            IF fr.a # <<>>
            THEN [co EXCEPT
                     !.stack = <<Frame("List", Tail(fr.a), Append(fr.b, v))>>
                               \o Tail(@),
                     !.mode = "send", !.val = Head(fr.a)]
            ELSE list_returns(co, Append(fr.b, v))
      [] fr.k = "run" -> runs(co, v, fr.a)

\* the blocks: for every Monad a first monad, up to MaxLen continuations
\* and an end
DoFirsts(monad) ==
    CASE monad = "Maybe" -> Maybes
      [] monad = "Either" -> Eithers
      [] monad = "Identity" -> Identities
      [] monad = "List" -> Lists
      [] monad = "Writer" ->
            {Writer(PyInt(1), List(<<StrAB>>)), Writer(PyInt(0), Mempty)}
      [] monad = "Reader" -> {Reader(Fn("inc")), Reader_unit(PyInt(1))}
      [] monad = "State" -> {State(Fn("pop")), State_unit(PyInt(1))}

DoConts(monad) ==
    CASE monad = "Maybe" -> MaybeConts
      [] monad = "Either" -> EitherConts
      [] monad = "Identity" -> {Fn("Identity.unit")}
      [] monad = "List" -> ListConts
      [] monad = "Writer" -> {Fn("writer.m_add_two"), Fn("Writer.unit")}
      [] monad = "Reader" -> {Fn("madd"), Fn("Reader.unit")}
      [] monad = "State" -> {Fn("pops.lambda"), Fn("State.unit")}

DoMonads ==
    {"Maybe", "Either", "Identity", "List", "Writer", "Reader", "State"}

DoBlocks ==
    UNION {{DoBlock(monad, first, conts, "mreturn", identity) :
                first \in DoFirsts(monad),
                conts \in SeqUpTo(DoConts(monad), MaxLen)}
           \cup {DoBlock(monad, first, conts, "mfinished", fin) :
                    first \in DoFirsts(monad),
                    conts \in SeqUpTo(DoConts(monad), MaxLen),
                    fin \in DoConts(monad)} :
           monad \in DoMonads}

\* what the Reader or State a block returned is run on
RunInputs(monad) ==
    IF monad = "Reader" THEN Ints
    ELSE {PyList(<<PyInt(2)>>), PyList(<<PyInt(2), PyInt(0)>>)}

\* do.__call__: do_loop = self._do_func(*a, **k);
\* return self._send(None, do_loop)
DoCall ==
    /\ coro.mode = "idle"
    /\ \E block \in DoBlocks :
          StepDo([coro EXCEPT !.block = block, !.status = "created",
                              !.mode = "send", !.val = PyNone])

DoSend ==
    /\ coro.mode = "send"
    /\ StepDo(gen_send(coro))

DoBind ==
    /\ coro.mode = "bind"
    /\ StepDo(monad_bind(coro))

\* self._send returns: to the call of bind that called it, else to the
\* caller of the decorated function or of its result
DoReturn ==
    /\ coro.mode = "ret"
    /\ StepDo(IF coro.stack = <<>> THEN finish(coro, coro.val)
              ELSE frame_returns(coro, Head(coro.stack), coro.val))

\* an exception leaves every call of bind and of self._send: their except
\* clauses name MonadReturn and MonadFinished only
DoRaise ==
    /\ coro.mode = "raise"
    /\ StepDo(finish([coro EXCEPT !.stack = <<>>], coro.val))

\* the Reader or State the call returned is run on x
DoRun ==
    /\ coro.mode = "done"
    /\ coro.result.t \in {"Reader", "State"}
    /\ coro.runs < MaxRuns
    /\ \E x \in RunInputs(coro.block.monad) :
          StepDo(runs([coro EXCEPT !.phase = "run", !.runs = @ + 1,
                                   !.on = x, !.mode = "ret",
                                   !.stack = <<Frame("run", x, <<>>)>>],
                      coro.result, x))

NextDo == DoCall \/ DoSend \/ DoBind \/ DoReturn \/ DoRaise \/ DoRun

SpecDo == Init /\ [][NextDo]_vars

(***************************************************************************)
(* utils/decorators.py: method_optional_kwargs, the descriptor around the  *)
(* classmethods Maybe.as_wrapper and Option.as_wrapper.                    *)
(***************************************************************************)
StepDescr(next) ==
    /\ descr' = next
    /\ UNCHANGED <<op, args, out, depth, inst, created, threads, coro, heap>>

Full(v) == [t |-> "Full", v |-> v]
Empty == [t |-> "Empty", v |-> <<>>]

\* Option(v, checker): Full(v) if checker(v) else Empty
Option_new(v, checker) ==
    AndThen(Call(checker, v), LAMBDA ok :
        IF ~Falsy(ok) THEN Full(v) ELSE Empty)

\* the classes an as_wrapper is reached through: the class that defines it
\* and its subclasses (an instance gives its class)
ClassesOf(owner) ==
    IF owner = "Maybe" THEN {"Maybe", "Just", "_Nothing"}
    ELSE {"Option", "Full", "_Empty"}

\* cls(v, checker=checker), the set of the outcomes: Just.__new__(cls, v),
\* _Nothing.__new__(cls, value=None) and Full.__new__(cls, v) take no
\* checker, _Empty.__new__(cls, *args, **kwargs) returns Empty
construct(cls, v, checker) ==
    CASE IsError(v) -> {v}
      [] cls = "Maybe" -> Maybe_new(v, checker)
      [] cls = "Option" -> {Option_new(v, checker)}
      [] cls = "_Empty" -> {Empty}
      [] OTHER -> {TypeError}

\* __get__(instance, cls): if self._deco: return self._deco; else the deco
\* built with inst_or_cls = cls is stored in self._deco and returned
get(d, owner, cls) ==
    IF d.deco[owner] # "None" THEN d.deco[owner] ELSE cls

\* cls.as_wrapper: the attribute access runs __get__
GetDecorator ==
    \E owner \in {"Maybe", "Option"} :
        \E cls \in ClassesOf(owner) :
            StepDescr([descr EXCEPT
                          !.deco[owner] = get(descr, owner, cls),
                          !.via = cls,
                          !.bound = get(descr, owner, cls),
                          !.called = FALSE, !.func = PyNone, !.a = PyNone,
                          !.result = PyNone])

\* deco(func)(a), the decorator being the one obtained last: method(
\* inst_or_cls, func) returns the wrapper, which returns
\* cls(func(a), checker=checker)
CallDecorated ==
    /\ descr.via # "None"
    /\ \E func \in {Fn("inc"), Fn("raise_if_odd"), PyFn("constant", <<PyNone>>)},
          a \in Ints :
          \E r \in construct(descr.bound, Call(func, a), is_not_None) :
              StepDescr([descr EXCEPT !.called = TRUE, !.func = func,
                                      !.a = a, !.result = r])

NextDescr == GetDecorator \/ CallDecorated

SpecDescr == Init /\ [][NextDescr]_vars

(***************************************************************************)
(* The monoids with the identity of every object: an operation returns an  *)
(* object that exists or a new one, and what it writes it writes to one    *)
(* object.  ret is the object returned, 0 when the call raised.            *)
(***************************************************************************)
\* orig keeps what an object held when the call that made it returned
StepHeap(next, name) ==
    /\ heap' = [next EXCEPT
                   !.last = name,
                   !.orig = [i \in 1..Len(next.cells) |->
                                IF i <= Len(heap.orig) THEN heap.orig[i]
                                ELSE next.cells[i]]]
    /\ UNCHANGED <<op, args, out, depth, inst, created, threads, coro,
                   descr>>

\* an expression that builds an object: a display, a comprehension, a
\* constructor call, list(...), a | b
new_object(hp, v) ==
    [hp EXCEPT !.cells = Append(@, v), !.ret = Len(hp.cells) + 1]

\* return v, or the exception v propagates and nothing is built
returns(hp, v) ==
    IF IsError(v) THEN [hp EXCEPT !.ret = 0] ELSE new_object(hp, v)

\* an object that exists is returned
returns_object(hp, i) == [hp EXCEPT !.ret = i]

\* dct.update(d): dct is written
dict_update(hp, dct, d) ==
    [hp EXCEPT !.cells[dct] = chain_dict_update(<<hp.cells[dct], hp.cells[d]>>)]

RECURSIVE update_each(_, _, _)
\* for d in ds: dct.update(d); an exception ends the loop
update_each(hp, dct, ds) ==
    IF ds = <<>> THEN returns_object(hp, dct)
    ELSE IF IsError(chain_dict_update(<<hp.cells[dct], hp.cells[Head(ds)]>>))
    THEN [hp EXCEPT !.ret = 0]
    ELSE update_each(dict_update(hp, dct, Head(ds)), dct, Tail(ds))

\* a chain_dict_update that updates the first dictionary with the others
heap_chain_dict_update_first(hp, ds) == update_each(hp, Head(ds), Tail(ds))

\* chain_dict_update(*ds): dct = {}; for d in ds: dct.update(d); return dct
heap_chain_dict_update(hp, ds) ==
    update_each(new_object(hp, PyDict(<<>>)), Len(hp.cells) + 1, ds)

\* cls(chain_dict_update(...)): Map.__init__ fills a dictionary of its own,
\* data = {}; data.update(v)
heap_Map(hp) ==
    IF hp.ret = 0 THEN hp ELSE returns(hp, Map(hp.cells[hp.ret]))

\* the contents of the objects ids
Contents(hp, ids) == [i \in 1..Len(ids) |-> hp.cells[ids[i]]]

\* the object _generic_mempties holds for the generic type
shared_mempty(generic) ==
    CASE generic = "Sequence" -> 1
      [] generic = "Mapping" -> 2
      [] generic = "Set" -> 3
      [] OTHER -> 0

\* funcs.mempty(monoid): List.mempty is the class attribute; Map.mempty
\* makes cls() on the first access and keeps it in _mempty; the generic
\* mempty is known_mempties.get(generic), the object of the table itself
heap_mempty(hp, m) ==
    CASE hp.cells[m].t = "List" -> returns_object(hp, 4)
      [] hp.cells[m].t = "Map" ->
            IF hp.Map_mempty # 0 THEN returns_object(hp, hp.Map_mempty)
            ELSE [new_object(hp, Map(PyNone)) EXCEPT
                     !.Map_mempty = Len(hp.cells) + 1]
      [] OTHER ->
            returns_object(hp, shared_mempty(get_generic_type(hp.cells[m])))

\* funcs.mappend(existing, other): List.mappend and _seq_mappend build a
\* List and a list, Map.mappend and the mappend of dicts go through
\* chain_dict_update, a | b builds a set
heap_mappend(hp, a, b) ==
    CASE hp.cells[a].t = "Map" ->
            heap_Map(heap_chain_dict_update(hp, <<a, b>>))
      [] hp.cells[a].t = "dict" -> heap_chain_dict_update(hp, <<a, b>>)
      [] OTHER -> returns(hp, mappend(hp.cells[a], hp.cells[b]))

\* funcs.mconcat(*monoids): List.mconcat, Map.mconcat, the generic mconcat
heap_mconcat(hp, ms) ==
    CASE hp.cells[ms[1]].t = "Map" -> heap_Map(heap_chain_dict_update(hp, ms))
      [] hp.cells[ms[1]].t = "dict" -> heap_chain_dict_update(hp, ms)
      [] OTHER -> returns(hp, mconcat(Contents(hp, ms), DefaultKwargs))

\* what a program makes: a list, a dict, a set, a List and a Map, of values
\* and of functions
HeapOperands ==
    {PyList(<<PyInt(1)>>), PyDict(<<<<KeyA, PyInt(1)>>>>), PySet({PyInt(1)}),
     List(<<PyInt(1)>>), Map(PyDict(<<<<KeyB, PyInt(2)>>>>)),
     List(<<Fn("inc")>>), Map(PyDict(<<<<KeyB, Fn("inc")>>>>))}

Objects == 1..Len(heap.cells)

\* the program may make another call
HeapOpen == Len(heap.cells) < Len(SharedObjects) + MaxObjects

HeapNew ==
    /\ HeapOpen
    /\ \E v \in HeapOperands : StepHeap(new_object(heap, v), "new")

HeapMempty ==
    /\ HeapOpen
    /\ \E m \in Objects : StepHeap(heap_mempty(heap, m), "mempty")

\* the first operand of a mappend or mconcat that returned is remembered
HeapMappend ==
    /\ HeapOpen
    /\ \E a \in Objects, b \in Objects :
          StepHeap([heap_mappend(heap, a, b) EXCEPT
                       !.joined = IF heap_mappend(heap, a, b).ret = 0 THEN @
                                  ELSE @ \cup {a}],
                   "mappend")

\* mconcat of objects of one type
HeapMconcat ==
    /\ HeapOpen
    /\ \E ms \in SeqUpTo(Objects, MaxLen) \ {<<>>} :
          /\ \A i \in 1..Len(ms) : heap.cells[ms[i]].t = heap.cells[ms[1]].t
          /\ StepHeap([heap_mconcat(heap, ms) EXCEPT
                       !.joined = IF heap_mconcat(heap, ms).ret = 0 THEN @
                                  ELSE @ \cup {ms[1]}],
                   "mconcat")

\* m.fmap(f), m.bind(f) and m.apply(other) of a List and a Map: each is
\* self.__class__(...) of a comprehension
HeapFmap ==
    /\ HeapOpen
    /\ \E m \in Objects :
          /\ heap.cells[m].t \in {"List", "Map"}
          /\ StepHeap(returns(heap, fmap(Fn("inc"), heap.cells[m])), "fmap")

HeapBind ==
    /\ HeapOpen
    /\ \E m \in Objects :
          /\ heap.cells[m].t = "List"
          /\ StepHeap(returns(heap, List_bind(heap.cells[m],
                                              Fn("minus_or_plus_two"))),
                      "bind")

HeapApply ==
    /\ HeapOpen
    /\ \E m \in Objects, other \in Objects :
          \/ /\ heap.cells[m].t = "List"
             /\ StepHeap(returns(heap, List_apply(heap.cells[m],
                                                  heap.cells[other])),
                         "apply")
          \/ /\ heap.cells[m].t = "Map"
             /\ StepHeap(returns(heap, Map_apply(heap.cells[m],
                                                 heap.cells[other])),
                         "apply")

NextHeap ==
    \/ HeapNew
    \/ HeapMempty
    \/ HeapMappend
    \/ HeapMconcat
    \/ HeapFmap
    \/ HeapBind
    \/ HeapApply

SpecHeap == Init /\ [][NextHeap]_vars



(***************************************************************************)
(* Properties.                                                             *)
(***************************************************************************)
Arg(i) == args[i]

UnitOf(m) ==
    IF m.t \in {"Just", "Nothing"} THEN Fn("Maybe.unit") ELSE Fn("Either.unit")

\* C1: the monad laws hold for Maybe and Either.  For every bind m.bind(f)
\* on a Just, Nothing, Left or Right with a continuation f of the same
\* family: when m is unit(v) the result equals f(v) (left identity); when f
\* is unit the result equals m (right identity); and for every continuation
\* g of the family, m.bind(f).bind(g) equals m.bind(x -> f(x).bind(g))
\* (associativity).
MonadLaws ==
    (op = "bind" /\ Arg(1).t \in {"Just", "Nothing", "Left", "Right"}
                 /\ Arg(2) \in Conts(Arg(1))) =>
        LET m == Arg(1)
            f == Arg(2)
        IN /\ (m.t \in {"Just", "Right"} /\ m = Call(UnitOf(m), m.v)) =>
                  PyEq(out, Call(f, m.v))
           /\ f = UnitOf(m) => PyEq(out, m)
           /\ \A g \in Conts(m) :
                  PyEq(rshift(out, g), rshift(m, PyFn("kleisli", <<f, g>>)))

\* a second bind in a chain, on a Just, with a continuation that succeeds
MonadLawsWitness ==
    /\ op = "bind"
    /\ depth = 2
    /\ Arg(1) = Just(PyInt(3))
    /\ Arg(2) = Fn("maybe.m_add_two")
    /\ out = Just(PyInt(5))

FunctorLawTypes ==
    {"Just", "Nothing", "Left", "Right", "List", "Map", "Identity", "Writer"}

\* C2: the functor laws hold for Just/Nothing, Left/Right, List, Map,
\* Identity and Writer.  For every F.fmap(g) that returns: when g is the
\* identity function the result equals F; for every function f,
\* F.fmap(compose(f, g)) equals F.fmap(g).fmap(f); for a Map the key set is
\* the key set of F and for a Writer the log is the log of F.
FunctorLaws ==
    (op = "fmap" /\ Arg(1).t \in FunctorLawTypes /\ ~IsError(out)) =>
        LET F == Arg(1)
            g == Arg(2)
        IN /\ g = identity => PyEq(out, F)
           /\ \A f \in Fns : PyEq(fmap(compose(<<f, g>>), F), fmap(f, out))
           /\ F.t = "Map" => Keys(out.v) = Keys(F.v)
           /\ F.t = "Writer" => out.v[2] = F.v[2]

\* h mapped over a Writer that carries a List log
FunctorLawsWitness ==
    /\ op = "fmap"
    /\ Arg(1) = Writer(PyInt(2), List(<<StrAB>>))
    /\ Arg(2) = Fn("h")
    /\ out = Writer(PyInt(4), List(<<StrAB>>))

\* C3: the monoid identity law: for every List, Map and integer x,
\* mappend(mempty, x) equals x and mappend(x, mempty) equals x, mempty being
\* the identity element of the type of x.
MonoidIdentityLaw ==
    op = "mappend" =>
        LET a == Arg(1)
            b == Arg(2)
        IN /\ (b.t \in {"List", "Map", "int"} /\ a = mempty(b)) => PyEq(out, b)
           /\ (a.t \in {"List", "Map", "int"} /\ b = mempty(a)) => PyEq(out, a)

\* C4: State.fmap passes on the state produced by the inner run: running
\* st.fmap(f) on s returns (f(a), s') when st run on s returns (a, s').
StateFmapPassesNewState ==
    (op = "State.call" /\ Arg(1).v.v.name = "state_mapper") =>
        LET func == Arg(1).v.v.env[1]
            runner == Arg(1).v.v.env[2]
            r == State_call(runner, Arg(2))
        IN (~IsError(r) /\ ~IsError(Call(func, r.v[1]))) =>
               out = PyTuple(<<Call(func, r.v[1]), r.v[2]>>)

\* C5 as stated: List.unit(v) takes the elements of v as its contents when v
\* is an iterable that is not a string or a mapping, and v as the sole
\* element otherwise.
ListUnitSplatsIterables ==
    op = "List.unit" =>
        IF iter_but_not_str_or_map(Arg(1))
        THEN out = List(Iter(Arg(1)))
        ELSE out = List(<<Arg(1)>>)

\* C5 amended: List.unit(v) is the List whose sole element is v, whether v
\* is a scalar, a string, a mapping or any other iterable.
ListUnitSingleElement ==
    op = "List.unit" =>
        /\ out.t = "List"
        /\ Len(out.v) = 1
        /\ out.v[1] = Arg(1)

\* List.unit of a builtin list of two elements
ListUnitWitness ==
    /\ op = "List.unit"
    /\ Arg(1) = PyList(<<PyInt(1), PyInt(2)>>)
    /\ Len(out.v) = 1


ConcreteMonoidTypes == {"List", "Map", "Mempty"}

\* every element is an iterable of two elements: dict.update reads the
\* operand as key/value pairs
AllPairs(x) ==
    \A i \in 1..Len(Iter(x)) :
        Iterable(Iter(x)[i]) /\ Len(Iter(Iter(x)[i])) = 2

RECURSIVE LeftFold(_, _)
\* mappend(...mappend(mappend(x1, x2), x3)..., xn), for n >= 1
LeftFold(cls, xs) ==
    IF Len(xs) = 1 THEN xs[1]
    ELSE cls_mappend(cls, LeftFold(cls, SubSeq(xs, 1, Len(xs) - 1)),
                     xs[Len(xs)])

RECURSIVE SeededFold(_, _)
\* mappend(...mappend(mappend(mempty, x1), x2)..., xn), for n >= 0
SeededFold(cls, xs) ==
    IF xs = <<>> THEN cls_mempty(cls)
    ELSE cls_mappend(cls, SeededFold(cls, SubSeq(xs, 1, Len(xs) - 1)),
                     xs[Len(xs)])

\* C7 as stated: the default mconcat is the left fold of mappend seeded by
\* mempty: of no operand it is mempty, of one operand x it is x.
DefaultMconcatSeeded ==
    op = "Monoid.mconcat" =>
        LET cls == Arg(1).v
            xs == Tail(args)
        IN /\ xs = <<>> => out = cls_mempty(cls)
           /\ Len(xs) = 1 => out = xs[1]
           /\ out = SeededFold(cls, xs)

\* C7 amended: the default mconcat is the left-to-right fold of mappend over
\* its operands without a seed: with fewer than two operands it raises a
\* TypeError, and mconcat(x1, ..., xn) for n >= 2 is
\* mappend(...mappend(x1, x2)..., xn).
DefaultMconcatUnseeded ==
    op = "Monoid.mconcat" =>
        LET cls == Arg(1).v
            xs == Tail(args)
        IN IF Len(xs) < 2 THEN out = TypeError
           ELSE out = LeftFold(cls, xs)

\* the inherited mconcat over three Lists: the operands in order
DefaultMconcatWitness ==
    /\ op = "Monoid.mconcat"
    /\ args = <<Cls("List"), List(<<PyInt(2)>>), List(<<>>), List(<<PyInt(1)>>)>>
    /\ out = List(<<PyInt(2), PyInt(1)>>)

\* C8: List.mconcat returns what the default fold of List.mappend returns on
\* the same operands, and fails with a TypeError where that fold does.
ListMconcatIsDefaultFold ==
    op = "List.mconcat" => out = Monoid_mconcat("List", args)

RECURSIVE SumLen(_, _)
\* the number of elements of the first n parts
SumLen(parts, n) == IF n = 0 THEN 0 ELSE Len(parts[n]) + SumLen(parts, n - 1)

RECURSIVE DepthFirst(_, _)
RECURSIVE DepthFirstAll(_, _)
\* the results the continuations gs give from x, depth first
DepthFirst(x, gs) ==
    IF gs = <<>> THEN <<x>>
    ELSE DepthFirstAll(Iter(Call(Head(gs), x)), Tail(gs))
DepthFirstAll(xs, gs) ==
    IF xs = <<>> THEN <<>>
    ELSE DepthFirst(Head(xs), gs) \o DepthFirstAll(Tail(xs), gs)

\* C10: List.bind applies the continuation to every element in order and
\* flattens one level: List(x1..xn).bind(g) is g(x1) ++ ... ++ g(xn), the
\* results of xi starting where those of x1..x(i-1) end; and a multibind
\* yields the results in depth-first order of the original elements.
ListBindFlattensInOrder ==
    /\ (op = "bind" /\ Arg(1).t = "List" /\ ~IsError(out)) =>
           LET xs == Arg(1).v
               parts == [i \in 1..Len(xs) |-> Iter(Call(Arg(2), xs[i]))]
           IN /\ out.t = "List"
              /\ Len(out.v) = SumLen(parts, Len(xs))
              /\ \A i \in 1..Len(xs) : \A k \in 1..Len(parts[i]) :
                     out.v[SumLen(parts, i - 1) + k] = parts[i][k]
    /\ (op = "multibind" /\ ~IsError(out)) =>
           /\ out.t = "List"
           /\ out.v = DepthFirstAll(Arg(1).v, Tail(args))

\* multibind(List(1, 2), minus_or_plus_two, minus_or_plus_two)
ListBindWitness ==
    /\ op = "multibind"
    /\ args = <<List(<<PyInt(1), PyInt(2)>>), Fn("minus_or_plus_two"),
                Fn("minus_or_plus_two")>>
    /\ out = List(<<PyInt(-3), PyInt(1), PyInt(1), PyInt(5),
                    PyInt(-2), PyInt(2), PyInt(2), PyInt(6)>>)

\* C11: Map.apply keeps exactly the keys present in both operands, each
\* mapped to left[k](right[k]); in a chain (m * n) * o the keys of the result
\* are those common to m, n and o, so a key one operand misses never
\* reappears.
MapApplyIntersectsKeys ==
    [][(op' = "Map.apply" /\ ~IsError(out')) =>
           /\ out'.t = "Map"
           /\ Keys(out'.v) = Keys(args'[1].v) \cap Keys(args'[2].v)
           /\ \A k \in Keys(out'.v) :
                  Lookup(out'.v, k) =
                      Call(Lookup(args'[1].v, k), Lookup(args'[2].v, k))
           /\ (op = "Map.apply") =>
                  Keys(out'.v) =
                      (Keys(args[1].v) \cap Keys(args[2].v))
                          \cap Keys(args'[2].v)]_vars

\* (m * n) * o where n misses a key of m and o has both keys: the result
\* keeps a key and the missing one is absent
MapApplyWitness ==
    /\ op = "Map.apply"
    /\ depth = 2
    /\ Keys(out.v) = {KeyA}
    /\ Keys(args[2].v) = {KeyA, KeyB}
    /\ Lookup(args[1].v, KeyA).t = "function"
    /\ Lookup(args[1].v, KeyA).v.name = "plus_other.lambda"

\* the index of the last operand of ds that contains the key k
LastWith(ds, k) ==
    CHOOSE i \in 1..Len(ds) :
        /\ k \in Keys(ds[i].v)
        /\ \A j \in (i + 1)..Len(ds) : k \notin Keys(ds[j].v)

RECURSIVE ChainMappend(_)
\* d1.mappend(d2).mappend(d3)...
ChainMappend(ds) ==
    IF Len(ds) = 1 THEN ds[1]
    ELSE Map_mappend(ChainMappend(SubSeq(ds, 1, Len(ds) - 1)), ds[Len(ds)])

\* C12: Map.mappend is the right-biased union, and Map.mconcat(d1, ..., dn)
\* equals chaining mappend in argument order: every key of any operand is
\* kept and its value comes from the last operand that contains it.
MapMappendRightBiased ==
    /\ (op = "mappend" /\ args[1].t = "Map" /\ args[2].t = "Map") =>
           /\ out.t = "Map"
           /\ Keys(out.v) = Keys(args[1].v) \cup Keys(args[2].v)
           /\ \A k \in Keys(out.v) :
                  Lookup(out.v, k) =
                      IF k \in Keys(args[2].v) THEN Lookup(args[2].v, k)
                      ELSE Lookup(args[1].v, k)
    /\ (op = "Map.mconcat") =>
           /\ out.t = "Map"
           /\ Keys(out.v) = UNION {Keys(args[i].v) : i \in 1..Len(args)}
           /\ \A k \in Keys(out.v) :
                  Lookup(out.v, k) = Lookup(args[LastWith(args, k)].v, k)
           /\ PyEq(out, ChainMappend(args))

\* Map.mconcat of three Maps, the first and the last colliding on a key
\* with different values
MapMconcatWitness ==
    /\ op = "Map.mconcat"
    /\ Len(args) = 3
    /\ \E k \in Keys(args[1].v) \cap Keys(args[3].v) :
           /\ Lookup(args[1].v, k) # Lookup(args[3].v, k)
           /\ Lookup(out.v, k) = Lookup(args[3].v, k)

\* C13: Maybe(v, checker) returns a Just holding v when checker(v) is true
\* and Nothing otherwise, and whatever was constructed, filtered or
\* recovered, there is exactly one _Nothing instance, the one _inst refers
\* to.
MaybeNewAndNothingSingleton ==
    /\ (op = "Maybe" /\ ~IsError(Call(args[2], args[1]))) =>
           out = IF ~Falsy(Call(args[2], args[1])) THEN Just(args[1])
                 ELSE Nothing
    /\ created = 1
    /\ inst = 1

\* C14: fmap, apply and bind on a Left, and fmap, apply, bind and filter on
\* Nothing, return the receiver itself without invoking the function (a
\* function that raises on the receiver's contents does not make the call
\* raise); in a chain, a step whose receiver is the failure the previous
\* step returned returns that same failure.
FailureShortCircuits ==
    [][(op' \in {"fmap", "bind", "Applicative.apply", "filter"}
            /\ args'[1].t \in {"Nothing", "Left"}) =>
           /\ out' = args'[1]
           /\ (depth > 0) => out' = out]_vars

\* Right(v) >> l_add_two >> m_add_two: the second bind returns the Left
\* the first one produced
FailureShortCircuitsWitness ==
    /\ op = "bind"
    /\ depth = 2
    /\ args[1] = Left(PyStr(<<"f", "a", "i", "l", "e", "d">>))
    /\ args[2] = Fn("either.m_add_two")
    /\ out = args[1]

\* C15: on a Just, get_or and get_or_call return the value and or_else and
\* or_call the Just itself, whatever the alternative; on Nothing, get_or(d)
\* returns d, get_or_call(fn, a) returns fn(a), or_else(d) returns Just(d)
\* and or_call(fn, a) returns Just(fn(a)).
MaybeRecovery ==
    /\ (op = "get_or") =>
           out = IF args[1].t = "Just" THEN args[1].v ELSE args[2]
    /\ (op = "get_or_call") =>
           out = IF args[1].t = "Just" THEN args[1].v
                 ELSE Call(args[2], args[3])
    /\ (op = "or_else") =>
           out = IF args[1].t = "Just" THEN args[1] ELSE Just(args[2])
    /\ (op = "or_call") =>
           IF args[1].t = "Just" THEN out = args[1]
           ELSE LET r == Call(args[2], args[3]) IN
                IF IsError(r) THEN out = r ELSE out = Just(r)

\* the Monad family of a value
Family(m) ==
    CASE m.t \in {"Just", "Nothing"} -> {"Just", "Nothing"}
      [] m.t \in {"Left", "Right"} -> {"Left", "Right"}
      [] OTHER -> {m.t}

\* C16 as stated: Just(v).bind(f) and Right(v).bind(f) raise when f(v) is
\* not a member of the family of the receiver and never return the foreign
\* value.
BindFailsFast ==
    (op = "bind" /\ args[1].t \in {"Just", "Right"}) =>
        LET r == Call(args[2], args[1].v) IN
        IF r.t \in Family(args[1]) THEN out = r ELSE IsError(out)

\* C16: Just(v).bind(f) and Right(v).bind(f) return f(v) exactly as f
\* returned it, a raw value or a member of another family included; the
\* call raises only when f itself raises.
BindReturnsContinuationResult ==
    (op = "bind" /\ args[1].t \in {"Just", "Right"}) =>
        out = Call(args[2], args[1].v)

\* Right(v).bind(add_two) returned a raw integer, Right(v).bind of a
\* continuation of Maybe a Just
BindForeignWitness ==
    /\ op = "bind"
    /\ args[1].t = "Right"
    /\ args[2] \in ForeignConts(args[1])
    /\ out.t \in {"int", "Just"}

\* C17: the function Either.as_wrapper(func, expect=K) returns gives
\* Right(result) when func returns, Left(e) when func raises an e of kind
\* K, and lets any other e propagate: then the call raises e and yields
\* neither a Left nor a Right.  Left.or_call wraps with the default kind,
\* Exception, which captures every e.
AsWrapperCaptures ==
    /\ (op = "as_wrapper") =>
           LET r == Call(args[1], args[3]) IN
           IF ~IsError(r) THEN out = Right(r)
           ELSE IF args[2].v \in {"Exception", r.t} THEN out = Left(r)
           ELSE out = r /\ out.t \notin {"Left", "Right"}
    /\ (op = "Left.or_call") =>
           LET r == Call(args[2], args[3]) IN
           out = IF IsError(r) THEN Left(r) ELSE Right(r)

\* as_wrapper(raise_if_odd, expect=KeyError)(1): the TypeError is not of
\* the expected kind and propagates
AsWrapperWitness ==
    /\ op = "as_wrapper"
    /\ args = <<Fn("raise_if_odd"), Cls("KeyError"), PyInt(1)>>
    /\ out = TypeError

\* C18: for every environment e, Reader(f).apply(Reader(g)) called with e
\* returns f(e)(g(e)) and Reader(f).bind(k) called with e returns
\* k(f(e))(e), also when the receiver is itself the result of an apply or a
\* bind, so every function of a chain is run on the e given to the
\* outermost call; apply and bind themselves run nothing, they return a
\* Reader even when a wrapped function raises on every call.
ReaderThreadsEnvironment ==
    /\ (op = "Reader.apply") =>
           /\ out.t = "Reader"
           /\ \A e \in Ints :
                  LET fe == Reader_call(args[1], e)
                      ge == Reader_call(args[2], e)
                  IN Reader_call(out, e) =
                         IF IsError(fe) THEN fe
                         ELSE IF IsError(ge) THEN ge ELSE Call(fe, ge)
    /\ (op = "Reader.bind") =>
           /\ out.t = "Reader"
           /\ \A e \in Ints :
                  LET a == Reader_call(args[1], e)
                      r == Call(args[2], a)
                  IN Reader_call(out, e) =
                         IF IsError(a) THEN a
                         ELSE IF IsError(r) THEN r ELSE Reader_call(r, e)

\* R(inc) >> madd >> madd, which run on 1 gives 4
ReaderBindWitness ==
    /\ op = "Reader.bind"
    /\ depth = 2
    /\ args[1] = Reader_bind(Reader(Fn("inc")), Fn("madd"))
    /\ args[2] = Fn("madd")
    /\ Reader_call(out, PyInt(1)) = PyInt(4)

\* the pair a stateful step returns, or the exception it raised
RunApply(stF, stV, s0) ==
    LET rf == State_call(stF, s0) IN
    IF IsError(rf) THEN rf
    ELSE LET rv == State_call(stV, rf.v[2]) IN
         IF IsError(rv) THEN rv
         ELSE LET y == Call(rf.v[1], rv.v[1]) IN
              IF IsError(y) THEN y ELSE PyTuple(<<y, rv.v[2]>>)

RunBind(st, g, s0) ==
    LET r == State_call(st, s0) IN
    IF IsError(r) THEN r
    ELSE LET next == Call(g, r.v[1]) IN
         IF IsError(next) THEN next ELSE State_call(next, r.v[2])

\* C19: F.apply(V) run on s0 runs F on s0 to (fn, s1), then V on s1 to
\* (val, s2), and returns (fn(val), s2); st.bind(g) run on s0 runs st on s0
\* to (a, s1) and returns what g(a) run on s1 returns; State.unit(v) run on
\* s returns (v, s).  The receiver may itself be the result of an apply or a
\* bind, so the steps of a chain run once each, in order, each on the state
\* the step before it returned.
StateThreadsState ==
    /\ (op = "State.apply") =>
           \A s0 \in StateInputs :
               State_call(out, s0) = RunApply(args[1], args[2], s0)
    /\ (op = "State.bind") =>
           \A s0 \in StateInputs :
               State_call(out, s0) = RunBind(args[1], args[2], s0)
    /\ (op = "State.unit") =>
           \A s0 \in StateInputs : State_call(out, s0) = PyTuple(<<args[1], s0>>)

\* push(1) >> (lambda _: pop) >> (lambda _: pop), which run on [2, 0] gives
\* (2, [0])
StateBindWitness ==
    /\ op = "State.bind"
    /\ depth = 2
    /\ args[1] = State_bind(push(PyInt(1)), Fn("pops.lambda"))
    /\ args[2] = Fn("pops.lambda")
    /\ State_call(out, PyList(<<PyInt(2), PyInt(0)>>)) =
           PyTuple(<<PyInt(2), PyList(<<PyInt(0)>>)>>)

WriterApplyKeepsRightLog ==
    (op = "Writer.apply" /\ ~IsError(out)) =>
        /\ out.t = "Writer"
        /\ out.v[1] = Call(args[1].v[1], args[2].v[1])
        /\ out.v[2] = args[2].v[2]

\* add_two applied with a left log ['ab'] and a right log 1
WriterApplyWitness ==
    /\ op = "Writer.apply"
    /\ args[1] = Writer(Fn("add_two"), List(<<StrAB>>))
    /\ args[2] = Writer(PyInt(2), PyInt(1))
    /\ out = [t |-> "Writer", v |-> <<PyInt(4), PyInt(1)>>]

\* the category the classification is to give for the type of obj in the
\* look-up table
Category(type) ==
    CASE type = "bool" -> "bool"
      [] type \in {"int", "float", "complex"} -> "Number"
      [] type = "str" -> "str"
      [] type \in {"list", "tuple"} -> "Sequence"
      [] type = "dict" -> "Mapping"
      [] type \in {"set", "frozenset"} -> "Set"

\* the positions in Boolean, Number, String, Sequence, Mapping, Set of the
\* categories obj matches structurally
Matching(obj) ==
    {i \in 1..6 :
        isinstance(obj, <<"bool", "Number", "str", "Sequence", "Mapping",
                          "Set">>[i])}

\* C22: the classification gives exactly one category: the one of the
\* look-up table for a value of a builtin type of the table, else the first
\* structural match in the order Boolean, Number, String, Sequence, Mapping,
\* Set; a bool is never a Number (its mempty is False, its mappend logical
\* or), a str never a Sequence; for a value that matches no category mempty
\* and mappend raise a TypeError that names the type of the value.
GenericClassification ==
    LET obj == args[1]
        order == <<"bool", "Number", "str", "Sequence", "Mapping", "Set">>
    IN /\ op = "_get_generic_type" =>
            /\ obj.t \in DOMAIN args[2].v.known_to_generics =>
                   out.v = Category(obj.t)
            /\ (obj.t \notin DOMAIN args[2].v.known_to_generics
                    /\ Matching(obj) # {}) =>
                   /\ out.v = order[CHOOSE i \in Matching(obj) :
                                       \A j \in Matching(obj) : i <= j]
                   /\ \A j \in Matching(obj) : order[j] = out.v
                          \/ \E i \in Matching(obj) : i < j
            /\ (obj.t \notin DOMAIN args[2].v.known_to_generics
                    /\ Matching(obj) = {}) => out.v = "None"
            /\ obj.t = "bool" => out.v = "bool"
            /\ obj.t = "str" => out.v = "str"
       /\ (op = "get_generic_mempty" /\ obj.t = "bool"
               /\ args[2].v.known_mempties = generic_mempties) =>
            out = PyBool(FALSE)
       /\ (op = "get_generic_mappend" /\ obj.t = "bool" /\ args[2].t = "bool"
               /\ args[3].v.known_mappends = generic_mappends) =>
            out = PyBool(obj.v \/ args[2].v)
       /\ (op \in {"get_generic_mempty", "get_generic_mappend"}
               /\ Matching(obj) = {}) =>
            out = [t |-> "TypeError", v |-> <<obj.t>>]

\* True classified without a look-up table: bool comes before Number
GenericClassificationWitness ==
    /\ op = "_get_generic_type"
    /\ args[1] = PyBool(TRUE)
    /\ DOMAIN args[2].v.known_to_generics = {}
    /\ out.v = "bool"

\* the generic type of obj under the tables of kwargs
CategoryIn(obj, kwargs) ==
    get_generic_type_in(obj, kwargs.v.generics, kwargs.v.known_to_generics)

\* the tables of kwargs know a mappend for obj, but no mempty
CombinableWithoutIdentity(obj, kwargs) ==
    /\ obj.t \notin {"List", "Map", "Mempty"}
    /\ CategoryIn(obj, kwargs) \in DOMAIN kwargs.v.known_mappends
    /\ CategoryIn(obj, kwargs) \notin DOMAIN kwargs.v.known_mempties

\* C23 as stated: for a value whose category has a known mappend but no
\* known mempty, generic mappend succeeds, while generic mempty and generic
\* mconcat both raise the TypeError of the classification.
MemptyAndMconcatRaiseWithoutIdentity ==
    /\ (op = "get_generic_mappend"
            /\ CombinableWithoutIdentity(args[1], args[3])) =>
          out # NoKnownGeneric(args[1])
    /\ (op = "get_generic_mempty"
            /\ CombinableWithoutIdentity(args[1], args[2])) =>
          out = NoKnownGeneric(args[1])
    /\ (op = "mconcat"
            /\ CombinableWithoutIdentity(args[1][1], args[2])) =>
          out = NoKnownGeneric(args[1][1])

\* C23 amended: for a value whose category has a known mappend but no known
\* mempty, generic mempty raises the TypeError of the classification and
\* generic mappend of two values of the type succeeds; generic mconcat does
\* not look for a mempty: it succeeds, and of two values it is their
\* mappend.
MemptyAloneRaisesWithoutIdentity ==
    /\ (op = "get_generic_mappend"
            /\ CombinableWithoutIdentity(args[1], args[3])) =>
          /\ out # NoKnownGeneric(args[1])
          /\ args[2].t = args[1].t => ~IsError(out)
    /\ (op = "get_generic_mempty"
            /\ CombinableWithoutIdentity(args[1], args[2])) =>
          out = NoKnownGeneric(args[1])
    /\ (op = "mconcat"
            /\ CombinableWithoutIdentity(args[1][1], args[2])) =>
          /\ ~IsError(out)
          /\ Len(args[1]) = 2 =>
                out = apply_mappend(
                          args[2].v.known_mappends[CategoryIn(args[1][1],
                                                              args[2])],
                          args[1][1], args[1][2])

\* mconcat(1, 1) with a table of mempties that has no entry for Number
MconcatWithoutIdentityWitness ==
    /\ op = "mconcat"
    /\ args[1] = <<PyInt(1), PyInt(1)>>
    /\ "Number" \notin DOMAIN args[2].v.known_mempties
    /\ out = PyInt(2)

IsFailure(m) == m.t \in {"Nothing", "Left"}

Failures(ms) == {i \in 1..Len(ms) : IsFailure(ms[i])}

\* what sequence is to return for the Maybes or Eithers ms: the leftmost
\* failure, else unit of the List of the values in the order of ms
Sequenced(ms) ==
    IF Failures(ms) # {}
    THEN ms[CHOOSE i \in Failures(ms) : \A j \in Failures(ms) : i <= j]
    ELSE [t |-> IF ms[1].t = "Just" THEN "Just" ELSE "Right",
          v |-> [t |-> "List", v |-> [i \in 1..Len(ms) |-> ms[i].v]]]

AllOfKind(ms, types) == ms # <<>> /\ \A i \in 1..Len(ms) : ms[i].t \in types

\* C24: sequence(m1, ..., mn) over Maybes or over Eithers is
\* unit(List(v1, ..., vn)) in the order of the arguments when every mi is a
\* success, and the leftmost failure (Nothing, or the first Left with its own
\* payload) otherwise; mapM(f, x1, ..., xn) is sequence(f(x1), ..., f(xn)).
SequenceCollectsInOrder ==
    /\ (op = "sequence"
            /\ (AllOfKind(args, {"Just", "Nothing"})
                    \/ AllOfKind(args, {"Left", "Right"}))) =>
          out = Sequenced(args)
    /\ (op = "mapM" /\ Len(args) > 1) =>
          LET ms == [i \in 1..(Len(args) - 1) |-> Call(args[1], args[i + 1])]
          IN (AllOfKind(ms, {"Just", "Nothing"})
                  \/ AllOfKind(ms, {"Left", "Right"})) =>
                 out = Sequenced(ms)

\* sequence(Right(1), Left('a'), Left('ab')) returns Left('a')
SequenceWitness ==
    /\ op = "sequence"
    /\ args = <<Right(PyInt(1)), Left(KeyA), Left(StrAB)>>
    /\ out = Left(KeyA)

\* sequence(Just(1), Just(0), Just(2)) returns Just(List(1, 0, 2))
SequenceOrderWitness ==
    /\ op = "sequence"
    /\ args = <<Just(PyInt(1)), Just(PyInt(0)), Just(PyInt(2))>>
    /\ out = Just(List(<<PyInt(1), PyInt(0), PyInt(2)>>))

desugared_result(co) ==
    IF co.phase = "call" THEN desugared(co.block)
    ELSE Call(desugared(co.block), co.on)

\* what the do-block gave: what the call returned or raised, or what the
\* last run of the Reader or State it returned gave
do_result(co) ==
    IF co.phase = "call" THEN co.result ELSE co.ran[Len(co.ran)][2]

\* the Reader or State of a call is compared by what a run of it gives
Comparable(co) ==
    /\ co.mode = "done"
    /\ co.phase = "call" => co.result.t \notin {"Reader", "State"}

DoEqualsDesugared ==
    Comparable(coro) => do_result(coro) = desugared_result(coro)

\* the coroutine was resumed once per yield at most: no List with two
\* elements was bound and no second run was made
ResumedOncePerYield ==
    /\ coro.runs <= 1
    /\ \A i \in 1..Len(coro.yielded) :
          coro.yielded[i].t = "List" => Len(coro.yielded[i].v) <= 1

DoEqualsDesugaredResumedOnce ==
    Comparable(coro) /\ ResumedOncePerYield
        => do_result(coro) = desugared_result(coro)

(***************************************************************************)
(* C27: in a do-block over Maybe or Either the steps run in the order of   *)
(* the yields and stop at the first failure: the coroutine is resumed with *)
(* the value of a yielded Just or Right exactly once before the next       *)
(* yield, it is never resumed after it yielded Nothing or a Left and the   *)
(* call returns that failure; the result is M.unit(v) only when            *)
(* mreturn(v) is reached, and mfinished(m) returns m as it is.             *)
(***************************************************************************)
OverMaybeOrEither(co) ==
    co.status # "none" /\ co.block.monad \in {"Maybe", "Either"}

\* the i-th yield gives the i-th monad of the block, made from the value
\* the coroutine was resumed with
YieldsInOrder(co) ==
    \A i \in 1..Len(co.yielded) :
        co.yielded[i] = IF i = 1 THEN co.block.first
                        ELSE Call(co.block.conts[i - 1], co.sent[i])

\* the coroutine is started with None and then resumed once per yielded
\* Just or Right, with its value
ResumedWithUnwrapped(co) ==
    /\ Len(co.sent) <= Len(co.yielded) + 1
    /\ Len(co.yielded) <= Len(co.sent)
    /\ \A i \in 1..Len(co.sent) :
          IF i = 1 THEN co.sent[i] = PyNone
          ELSE /\ co.yielded[i - 1].t \in {"Just", "Right"}
               /\ co.sent[i] = co.yielded[i - 1].v

\* a yielded Nothing or Left is the last yield, nothing is sent after it and
\* it is what the call returns
StopsAtFailure(co) ==
    \A i \in 1..Len(co.yielded) :
        IsFailure(co.yielded[i]) =>
            /\ i = Len(co.yielded)
            /\ Len(co.sent) = i
            /\ co.mode = "done" => co.result = co.yielded[i]

\* without a failure every step ran and the end of the block decides the
\* result
EndsWithReturnOrFinished(co) ==
    (/\ co.mode = "done"
     /\ \A i \in 1..Len(co.yielded) : ~IsFailure(co.yielded[i]))
        => /\ Len(co.yielded) = Len(co.block.conts) + 1
           /\ co.result =
                 IF co.block.final = "mreturn"
                 THEN monad_unit(co.block.monad,
                                 co.sent[Len(co.sent)])
                 ELSE Call(co.block.fin, co.sent[Len(co.sent)])

DoStopsAtFirstFailure ==
    OverMaybeOrEither(coro) =>
        /\ YieldsInOrder(coro)
        /\ ResumedWithUnwrapped(coro)
        /\ StopsAtFailure(coro)
        /\ EndsWithReturnOrFinished(coro)

\* a block over Maybe whose second step fails with a step left to run, and
\* one that reaches mreturn after two steps
DoStopsAtFirstFailureWitness ==
    /\ OverMaybeOrEither(coro)
    /\ coro.mode = "done"
    /\ Len(coro.block.conts) = 2
    /\ Len(coro.yielded) = 2
    /\ coro.yielded[1].t \in {"Just", "Right"}
    /\ IsFailure(coro.yielded[2])
    /\ coro.result = coro.yielded[2]

(***************************************************************************)
(* C28: Mempty is transparent to mconcat: for values of one kind (numbers, *)
(* booleans, strings, lists, dicts, sets, Lists, Maps) with Mempty at any  *)
(* positions, mconcat gives what mconcat of the values without the Mempty  *)
(* gives, and Mempty.mconcat of nothing but Mempty gives Mempty.           *)
(***************************************************************************)
HasMempty(monoids) == \E i \in 1..Len(monoids) : monoids[i].t = "Mempty"

OfOneKind(monoids) ==
    \E kind \in MonoidKinds :
        \A i \in 1..Len(monoids) : monoids[i] \in kind \cup {Mempty}

\* a call of mconcat or Mempty.mconcat with a Mempty among values of one kind
MconcatWithMempty ==
    /\ op \in {"mconcat", "Mempty.mconcat"}
    /\ HasMempty(args[1])
    /\ OfOneKind(args[1])

MemptyTransparentToMconcat ==
    MconcatWithMempty =>
        IF SelectSeq(args[1], IsNotMempty) # <<>>
        THEN out = mconcat(SelectSeq(args[1], IsNotMempty), args[2])
        ELSE op = "Mempty.mconcat" => out = Mempty

\* the same where ''.join does not get the Mempty: the first value is a
\* Mempty or the values are not strings
MemptyTransparentButToJoin ==
    (/\ MconcatWithMempty
     /\ \/ op = "Mempty.mconcat"
        \/ args[1][1].t # "str")
        => IF SelectSeq(args[1], IsNotMempty) # <<>>
           THEN out = mconcat(SelectSeq(args[1], IsNotMempty), args[2])
           ELSE op = "Mempty.mconcat" => out = Mempty

(***************************************************************************)
(* C30: a decorator wrapped by method_optional_kwargs is bound to whoever  *)
(* accesses it, whatever was accessed before: the as_wrapper obtained      *)
(* through class C constructs its result via C, whichever class or         *)
(* instance accessed the attribute earlier.                                *)
(***************************************************************************)
DecoratorBoundToAccessor ==
    /\ descr.via # "None" => descr.bound = descr.via
    /\ descr.called =>
          descr.result \in construct(descr.via,
                                     Call(descr.func, descr.a), is_not_None)

\* what holds instead: the decorator is bound to the class of the first
\* access of the descriptor
DecoratorBoundToFirstAccessor ==
    \A owner \in {"Maybe", "Option"} :
        descr.via \in ClassesOf(owner) => descr.bound = descr.deco[owner]

(***************************************************************************)
(* C29: no operation mutates an operand or a shared identity element:      *)
(* after any sequence of fmap, apply, bind, mappend and mconcat calls on   *)
(* Lists and Maps and of generic mempty, mappend and mconcat calls on      *)
(* lists, dicts and sets, every operand holds what it held when it was     *)
(* made, and the shared identity values (the [], {} and set() of the       *)
(* tables, the cached Map.mempty, List.mempty) are empty, so a mempty      *)
(* lookup returns an empty value.                                          *)
(***************************************************************************)
IsEmpty(x) == IF x.t \in {"set", "frozenset"} THEN x.v = {} ELSE x.v = <<>>

NothingMutated ==
    /\ \A i \in 1..Len(heap.cells) : heap.cells[i] = heap.orig[i]
    /\ \A i \in 1..Len(SharedObjects) : IsEmpty(heap.cells[i])
    /\ heap.Map_mempty # 0 => IsEmpty(heap.cells[heap.Map_mempty])
    /\ (heap.last = "mempty" /\ heap.ret # 0) => IsEmpty(heap.cells[heap.ret])

\* a mempty lookup returns the {} of the table after it was the first
\* operand of a mappend or mconcat that built a dict that is not empty
NothingMutatedWitness ==
    /\ heap.last = "mempty"
    /\ heap.ret \in heap.joined
    /\ heap.cells[heap.ret].t = "dict"
    /\ \E i \in 1..Len(heap.cells) :
          heap.cells[i].t = "dict" /\ heap.cells[i] \notin HeapOperands
                                  /\ ~IsEmpty(heap.cells[i])

====
